---- MODULE Spec2Model ----
(***************************************************************************)
(* Model of the Ditto -> BaSyx exporter (src/exporter.py) together with    *)
(* the producer-side signer (src/virtual-factory/simulators/src/sign.py,   *)
(* .../domain/simulators/valve.py).                                        *)
(*                                                                         *)
(* Three specifications share the variables:                               *)
(*   SpecResolver  get_export_config applied to bounded policy documents   *)
(*   SpecSig       sign_json_payload / verify_feature_signature            *)
(*   Spec          the scheduler loop: load_config, cleanup, export pass   *)
(***************************************************************************)
EXTENDS Integers, Sequences, FiniteSets, TLC

VARIABLES
    rq,             \* resolver harness: the call (source_url, thing_id, feature_id, config, now)
    rs,             \* resolver harness: what get_export_config returned
    feature_data,   \* signature harness: the feature as the exporter receives it
    signed,         \* signature harness: what the producer signed, and the bytes it signed
    public_key,     \* signature harness: the content of public_key_path
    vr,             \* signature harness: what verify_feature_signature did
    pc,             \* scheduler: "load", "cleanup", "export" or "sleep"
    src,            \* scheduler: index of the source entry the export pass is at
    cycle,          \* scheduler: number of cycles started
    config,         \* scheduler: the policy document load_config returned
    now,            \* datetime.now()
    ditto,          \* source registry: url -> things, their features and properties
    basyx,          \* target registry: shells, submodel references, submodels, elements
    log,            \* the calls issued in the current cycle, in order
    prev            \* history: what this cycle and the previous one started from

resolverVars == <<rq, rs>>
sigVars == <<feature_data, signed, vr>>
mainVars == <<pc, src, cycle, config, now, ditto, basyx, log, prev>>
vars == <<rq, rs, feature_data, signed, public_key, vr,
          pc, src, cycle, config, now, ditto, basyx, log, prev>>

(***************************************************************************)
(* Bounds                                                                  *)
(***************************************************************************)
MaxThingRules == 2      \* thing rules per source entry
MaxTime == 3            \* datetime.now() ranges over 0..MaxTime
MaxCycles == 2          \* scheduler cycles
MaxFaultCycles == 1     \* cycles, the last ones, in which a registry call may be lost
MaxCalls == 30          \* calls of one pass among which the lost one is chosen

SourceUrls == {"u1", "u2"}
ThingIds == {"t1", "t2"}
FeatureIds == {"f1", "f2"}
PropNames == {"a", "b", "c"}
Times == 0..MaxTime

\* All sequences over S of length at most n.
RECURSIVE SeqsUpTo(_, _)
SeqsUpTo(S, n) ==
    IF n = 0 THEN {<<>>}
    ELSE LET shorter == SeqsUpTo(S, n - 1)
         IN  shorter \cup {Append(s, x) : s \in {t \in shorter : Len(t) = n - 1}, x \in S}

(***************************************************************************)
(* Policy documents (exporter_config.json).  A thing rule's "downtime" is  *)
(* a window of two parseable timestamps, absent, or present with a         *)
(* timestamp datetime.fromisoformat cannot parse.                          *)
(***************************************************************************)
NoDowntime == [kind |-> "absent", start |-> 0, end |-> 0]
BadDowntime == [kind |-> "malformed", start |-> 0, end |-> 0]
Window(s, e) == [kind |-> "window", start |-> s, end |-> e]

AnyFeature == [feature_id |-> "*", properties |-> {"*"}]
OnlyF1 == [feature_id |-> "f1", properties |-> {"a"}]
FeatureRuleLists ==
    {<<>>, <<AnyFeature>>, <<OnlyF1>>, <<OnlyF1, AnyFeature>>, <<AnyFeature, OnlyF1>>}
Downtimes == {NoDowntime, Window(1, 2)}
ThingRules == [thing_id : {"*", "t1"}, downtime : Downtimes, features : FeatureRuleLists]
ThingRuleLists == SeqsUpTo(ThingRules, MaxThingRules)

\* Source entries that may precede the entry under test: another url, or the
\* same url with no thing rule or with one that matches nothing of interest.
LeadingEntries ==
    { <<>>,
      << [source_url |-> "u2", things |-> <<>>] >>,
      << [source_url |-> "u1", things |-> <<>>] >>,
      << [source_url |-> "u1",
          things |-> << [thing_id |-> "t1", downtime |-> Window(1, 2),
                         features |-> << [feature_id |-> "f1", properties |-> {"b"}] >>] >>] >> }

ResolverPolicies ==
    { [sources |-> lead \o << [source_url |-> "u1", things |-> tl] >>] :
        lead \in LeadingEntries, tl \in ThingRuleLists }

\* Documents whose only thing rule carries a downtime block with a timestamp
\* that datetime.fromisoformat cannot parse.
MalformedPolicies ==
    { [sources |-> << [source_url |-> "u1",
                       things |-> << [thing_id |-> tid, downtime |-> BadDowntime,
                                      features |-> fl] >>] >>] :
        tid \in {"*", "t1"}, fl \in FeatureRuleLists }

(***************************************************************************)
(* get_export_config (src/exporter.py:32-62).                              *)
(* The result is what the call produces: a selector (the "properties"      *)
(* list of a feature rule), None, or an exception.  `rule` names the       *)
(* <<source entry, thing rule, feature rule>> the call ended at, and       *)
(* `consulted` the feature rules it compared against feature_id.           *)
(***************************************************************************)
Selector(props, i, j, k, seen) ==
    [kind |-> "selector", props |-> props, rule |-> <<i, j, k>>, consulted |-> seen]
ReturnNone(i, j, seen) ==
    [kind |-> "none", props |-> {}, rule |-> <<i, j, 0>>, consulted |-> seen]
Raises(i, j, seen) ==
    [kind |-> "raise", props |-> {}, rule |-> <<i, j, 0>>, consulted |-> seen]

\* Lines 55-60: index of the first feature rule matching feature_id, 0 if none.
RECURSIVE first_feature(_, _, _)
first_feature(features, k, feature_id) ==
    IF k > Len(features) THEN 0
    ELSE IF features[k].feature_id = feature_id \/ features[k].feature_id = "*" THEN k
    ELSE first_feature(features, k + 1, feature_id)

\* Line 47: exact match or wildcard.
thing_matches(thing_config, thing_id) ==
    thing_config.thing_id = thing_id \/ thing_config.thing_id = "*"

\* Lines 49-50: datetime.fromisoformat(None) raises TypeError, an unparsable
\* string raises ValueError.
downtime_parses(thing_config) == thing_config.downtime.kind = "window"

\* Line 52 with the comparison made strict at both ends.
in_downtime_strict(thing_config, t) ==
    thing_config.downtime.start < t /\ t < thing_config.downtime.end

\* Line 52: downtime_start <= time_now <= downtime_end.
in_downtime(thing_config, t) ==
    thing_config.downtime.start <= t /\ t <= thing_config.downtime.end

\* Lines 43-60: the loop over one source entry's thing rules, from rule j on.
RECURSIVE scan_things(_, _, _, _, _, _, _)
scan_things(things, i, j, thing_id, feature_id, t, seen) ==
    IF j > Len(things) THEN [kind |-> "exhausted", props |-> {}, rule |-> <<i, 0, 0>>, consulted |-> seen]
    ELSE IF ~thing_matches(things[j], thing_id)
         THEN scan_things(things, i, j + 1, thing_id, feature_id, t, seen)
    ELSE IF ~downtime_parses(things[j]) THEN Raises(i, j, seen)
    ELSE IF in_downtime(things[j], t) THEN ReturnNone(i, j, seen)
    ELSE LET features == things[j].features
             k == first_feature(features, 1, feature_id)
             last == IF k = 0 THEN Len(features) ELSE k
             seen2 == seen \cup {<<i, j, x>> : x \in 1..last}
         IN  IF k > 0 THEN Selector(features[k].properties, i, j, k, seen2)
             ELSE scan_things(things, i, j + 1, thing_id, feature_id, t, seen2)

\* Lines 36-62: the loop over the source entries, from entry i on.
RECURSIVE scan_sources(_, _, _, _, _, _, _)
scan_sources(sources, i, source_url, thing_id, feature_id, t, seen) ==
    IF i > Len(sources) THEN ReturnNone(0, 0, seen)
    ELSE IF sources[i].source_url # source_url
         THEN scan_sources(sources, i + 1, source_url, thing_id, feature_id, t, seen)
    ELSE LET r == scan_things(sources[i].things, i, 1, thing_id, feature_id, t, seen)
         IN  IF r.kind = "exhausted"
             THEN scan_sources(sources, i + 1, source_url, thing_id, feature_id, t, r.consulted)
             ELSE r

get_export_config(source_url, thing_id, feature_id, cfg, t) ==
    scan_sources(cfg.sources, 1, source_url, thing_id, feature_id, t, {})

NotCalled == [kind |-> "pending", props |-> {}, rule |-> <<0, 0, 0>>, consulted |-> {}]

IdleResolver ==
    /\ rq = [source_url |-> "", thing_id |-> "", feature_id |-> "",
             config |-> [sources |-> <<>>], now |-> 0]
    /\ rs = NotCalled

\* load_config falling back, when the file is missing, on a document that
\* exports everything of source u1 to a configured registry.
ExportAllPolicy ==
    [basyx_url |-> TRUE, verify_signatures |-> FALSE,
     sources |-> << [source_url |-> "u1",
                     things |-> << [thing_id |-> "*", downtime |-> Window(1, 2),
                                    features |-> <<AnyFeature>>] >>] >>]

\* exporter.py:25, 28: the document load_config returns when the policy file
\* is missing or unreadable; it names no registry url and no source.
EmptyPolicy == [basyx_url |-> FALSE, verify_signatures |-> FALSE, sources |-> <<>>]
EmptyTarget == [shells |-> {}, refs |-> <<>>, submodels |-> {}, elements |-> {}]
NoPrev == [cfg_same |-> FALSE, before |-> <<>>, pnow |-> 0, pclean |-> FALSE,
           start |-> <<>>, now0 |-> 0]

IdleMain ==
    /\ pc = "off" /\ src = 0 /\ cycle = 0
    /\ config = EmptyPolicy
    /\ now = 0
    /\ ditto = <<>>
    /\ basyx = EmptyTarget
    /\ log = <<>>
    /\ prev = NoPrev

(***************************************************************************)
(* Python values and dicts.  A value is its type and its text; a dict is   *)
(* the sequence of its <<key, value>> items in insertion order.            *)
(***************************************************************************)
PyBool(b) == [t |-> "bool", s |-> IF b THEN "True" ELSE "False"]
PyInt(digits) == [t |-> "int", s |-> digits]
PyStr(text) == [t |-> "str", s |-> text]

\* str(value)
py_str(v) == v.s

\* bool(value): what "if not signature_b64" tests.
py_truthy(v) ==
    CASE v.t = "bool" -> v.s = "True"
      [] v.t = "int" -> v.s # "0"
      [] v.t = "str" -> v.s # ""
      [] OTHER -> FALSE

\* json.dumps of one value.
json_value(v) ==
    CASE v.t = "bool" -> (IF v.s = "True" THEN "true" ELSE "false")
      [] v.t = "int" -> v.s
      [] v.t = "str" -> "\"" \o v.s \o "\""
      [] OTHER -> "null"

DictKeys(d) == {d[n][1] : n \in 1..Len(d)}
DictGet(d, key) == d[CHOOSE n \in 1..Len(d) : d[n][1] = key][2]
\* d[key] = value: in place when the key is present, appended otherwise.
DictSet(d, key, value) ==
    IF key \in DictKeys(d)
    THEN [n \in 1..Len(d) |-> IF d[n][1] = key THEN <<key, value>> ELSE d[n]]
    ELSE Append(d, <<key, value>>)
\* {k: v for k, v in d.items() if k != key}
DictWithout(d, key) == SelectSeq(d, LAMBDA item : item[1] # key)
\* The mapping a dict denotes, whatever its insertion order.
DictContent(d) == {d[n] : n \in 1..Len(d)}

\* The property names in the order sorted() gives them.
KeyOrder == <<"a", "b", "c", "open", "signature", "timestamp">>
KeyRank(key) == CHOOSE n \in 1..Len(KeyOrder) : KeyOrder[n] = key

RECURSIVE SortItems(_)
SortItems(d) ==
    IF Len(d) = 0 THEN <<>>
    ELSE LET n == CHOOSE x \in 1..Len(d) :
                    \A y \in 1..Len(d) : KeyRank(d[x][1]) <= KeyRank(d[y][1])
             rest == [m \in 1..(Len(d) - 1) |-> IF m < n THEN d[m] ELSE d[m + 1]]
         IN  <<d[n]>> \o SortItems(rest)

RECURSIVE JoinItems(_)
JoinItems(d) ==
    IF Len(d) = 0 THEN ""
    ELSE "\"" \o d[1][1] \o "\": " \o json_value(d[1][2])
         \o (IF Len(d) = 1 THEN "" ELSE ", " \o JoinItems(Tail(d)))

\* json.dumps(payload) with the keys left in insertion order.
json_dumps_unsorted(payload) == "{" \o JoinItems(payload) \o "}"

\* json.dumps(payload, sort_keys=True)   (sign.py:9, exporter.py:87)
json_dumps_sorted(payload) == "{" \o JoinItems(SortItems(payload)) \o "}"

(***************************************************************************)
(* RSA-PSS.  A signature is valid for exactly the key pair and the bytes   *)
(* it was made with; the salt is drawn afresh at every signing.            *)
(***************************************************************************)
KeyPairs == {"k1", "k2"}
Salts == {"s1", "s2"}
pss_sign(private_key, payload_bytes, salt) ==
    "sig(" \o private_key \o "," \o salt \o "," \o payload_bytes \o ")"
pss_valid(key, signature_b64, payload_bytes) ==
    \E salt \in Salts : signature_b64 = pss_sign(key, payload_bytes, salt)

\* What base64.b64decode raises on: a value that is no string, or text with
\* incorrect padding.
NotBase64 == "@bad-padding"
b64decode_raises(v) == v.t # "str" \/ v.s = NotBase64

\* sign_json_payload (sign.py:6-27)
sign_json_payload(payload, private_key, salt) ==
    pss_sign(private_key, json_dumps_sorted(payload), salt)

\* Valve.open / Valve.close (valve.py:24-35, 48-59): the bundle written to
\* the source registry.
valve_payload(open, timestamp, private_key, salt) ==
    LET p1 == DictSet(<<>>, "open", PyBool(open))
        p2 == DictSet(p1, "timestamp", PyStr(timestamp))
    IN  DictSet(p2, "signature", PyStr(sign_json_payload(p2, private_key, salt)))

\* The content of the public key file.
KeyFiles == {"k1", "k2", "missing", "unparsable"}

\* exporter.py:86 with the signature left in the payload.
verify_payload_unstripped(properties) == properties

\* exporter.py:86
verify_payload(properties) == DictWithout(properties, "signature")

\* exporter.py:75-116, the body of the try block: "True", "False", or
\* "raise" when a statement raises to the enclosing handler.
verify_body(fd, key_file) ==
    IF ~fd.has_properties THEN [result |-> "raise", payload_bytes |-> ""]
    ELSE LET properties == fd.properties IN
    IF "signature" \notin DictKeys(properties) THEN [result |-> "False", payload_bytes |-> ""]
    ELSE LET signature_b64 == DictGet(properties, "signature") IN
    IF ~py_truthy(signature_b64) THEN [result |-> "False", payload_bytes |-> ""]
    ELSE LET payload_bytes == json_dumps_sorted(verify_payload(properties)) IN
    IF b64decode_raises(signature_b64) THEN [result |-> "False", payload_bytes |-> payload_bytes]
    ELSE IF key_file = "missing" THEN [result |-> "False", payload_bytes |-> payload_bytes]
    ELSE IF key_file = "unparsable" THEN [result |-> "raise", payload_bytes |-> payload_bytes]
    ELSE IF ~pss_valid(key_file, signature_b64.s, payload_bytes)
         THEN [result |-> "raise", payload_bytes |-> payload_bytes]
    ELSE [result |-> "True", payload_bytes |-> payload_bytes]

\* exporter.py:72-121 without the handler at 118-121.
verify_without_handler(fd, key_file) == verify_body(fd, key_file)

\* verify_feature_signature (exporter.py:72-121): the handler at 118-121
\* turns every exception of the body into False.
verify_feature_signature(fd, key_file) ==
    LET r == verify_body(fd, key_file)
    IN  IF r.result = "raise" THEN [r EXCEPT !.result = "False"] ELSE r

(***************************************************************************)
(* SpecSig: a producer signs a bundle, the bundle travels through the      *)
(* source registry (which may hand the keys back in any order), may be     *)
(* altered on the way, and is verified.                                    *)
(***************************************************************************)
NotVerified == [result |-> "pending", payload_bytes |-> ""]
NothingSigned == [payload |-> <<>>, bundle |-> <<>>, payload_bytes |-> "", key |-> ""]

IdleSig ==
    /\ feature_data = [has_properties |-> FALSE, properties |-> <<>>]
    /\ signed = NothingSigned
    /\ vr = NotVerified

\* Valve.open()/close() with the producer's private key file.
Produce ==
    /\ signed = NothingSigned
    /\ \E open \in BOOLEAN, key \in KeyPairs, salt \in Salts :
        LET bundle == valve_payload(open, "T1", key, salt)
            payload == DictWithout(bundle, "signature")
        IN  /\ feature_data' = [has_properties |-> TRUE, properties |-> bundle]
            /\ signed' = [payload |-> payload, bundle |-> bundle,
                          payload_bytes |-> json_dumps_sorted(payload), key |-> key]
    /\ UNCHANGED <<public_key, vr, resolverVars, mainVars>>

\* The registry returns the same mapping with its keys in another order.
Reorder ==
    /\ vr = NotVerified
    /\ Len(feature_data.properties) > 1
    /\ \E n \in 1..(Len(feature_data.properties) - 1) :
        feature_data' = [feature_data EXCEPT !.properties =
            [m \in 1..Len(@) |-> IF m = n THEN @[n + 1] ELSE IF m = n + 1 THEN @[n] ELSE @[m]]]
    /\ UNCHANGED <<signed, public_key, vr, resolverVars, mainVars>>

TamperValues == {PyBool(TRUE), PyBool(FALSE), PyStr("ABCD")}
BadSignatures == {PyStr(""), PyStr(NotBase64), PyStr("cmFuZG9t"), PyInt("7")}

\* A property value is changed on the way, the signature field left as it is.
TamperValue ==
    /\ vr = NotVerified /\ signed # NothingSigned /\ feature_data.has_properties
    /\ \E key \in DictKeys(feature_data.properties) \ {"signature"}, v \in TamperValues :
        /\ DictGet(feature_data.properties, key) # v
        /\ feature_data' = [feature_data EXCEPT !.properties = DictSet(@, key, v)]
    /\ UNCHANGED <<signed, public_key, vr, resolverVars, mainVars>>

\* The signature field is replaced (attack_2.py:159), removed, or the whole
\* "properties" key is missing from the feature.
TamperSignature ==
    /\ vr = NotVerified /\ signed # NothingSigned /\ feature_data.has_properties
    /\ \/ \E v \in BadSignatures :
            feature_data' = [feature_data EXCEPT !.properties = DictSet(@, "signature", v)]
       \/ feature_data' = [feature_data EXCEPT !.properties = DictWithout(@, "signature")]
       \/ feature_data' = [has_properties |-> FALSE, properties |-> <<>>]
    /\ UNCHANGED <<signed, public_key, vr, resolverVars, mainVars>>

Verify ==
    /\ vr = NotVerified /\ signed # NothingSigned
    /\ vr' = verify_feature_signature(feature_data, public_key)
    /\ UNCHANGED <<feature_data, signed, public_key, resolverVars, mainVars>>

InitSig ==
    /\ IdleResolver
    /\ IdleMain
    /\ IdleSig
    /\ public_key \in KeyFiles

NextSig == Produce \/ Reorder \/ TamperValue \/ TamperSignature \/ Verify

SpecSig == InitSig /\ [][NextSig]_vars

(***************************************************************************)
(* SpecResolver: get_export_config applied once to a bounded input.        *)
(***************************************************************************)
InitResolver ==
    /\ IdleSig
    /\ IdleMain
    /\ public_key = "missing"
    /\ rq \in [source_url : {"u1"}, thing_id : ThingIds, feature_id : FeatureIds,
               config : ResolverPolicies \cup MalformedPolicies, now : Times]
    /\ rs = NotCalled

Resolve ==
    /\ rs.kind = "pending"
    /\ rs' = get_export_config(rq.source_url, rq.thing_id, rq.feature_id, rq.config, rq.now)
    /\ UNCHANGED <<rq, sigVars, public_key, mainVars>>

NextResolver == Resolve

SpecResolver == InitResolver /\ [][NextResolver]_vars

(***************************************************************************)
(* What the policy document says about the call under test, stated from    *)
(* the document alone (not from the scan).                                 *)
(***************************************************************************)
Called == rs.kind # "pending"
Min(S) == CHOOSE x \in S : \A y \in S : x <= y
Matches(pattern, id) == pattern = id \/ pattern = "*"
RqSources == rq.config.sources
RqThings(i) == RqSources[i].things
MatchingThingRules(i) ==
    {j \in 1..Len(RqThings(i)) : Matches(RqThings(i)[j].thing_id, rq.thing_id)}
MatchingFeatureRules(i, j) ==
    {k \in 1..Len(RqThings(i)[j].features) :
        Matches(RqThings(i)[j].features[k].feature_id, rq.feature_id)}
\* Source entries for the call's url that hold a thing rule matching the thing.
EntriesForThing ==
    {i \in 1..Len(RqSources) :
        RqSources[i].source_url = rq.source_url /\ MatchingThingRules(i) # {}}
WindowHolds(d, t) == d.kind = "window" /\ d.start <= t /\ t <= d.end

\* The first thing rule matching the thing is a "*" rule, an exact-id rule for
\* the same thing follows it in the same source entry, and the "*" rule has a
\* feature rule matching the feature.
StarBeforeExact(i, j) ==
    /\ i = Min(EntriesForThing)
    /\ j = Min(MatchingThingRules(i))
    /\ RqThings(i)[j].thing_id = "*"
    /\ \E j2 \in (j + 1)..Len(RqThings(i)) : RqThings(i)[j2].thing_id = rq.thing_id
    /\ MatchingFeatureRules(i, j) # {}

\* C1: Resolver first-match-wins.  With a "*" thing rule declared before an
\* exact-id rule for thing T under the same source, resolving (source, T, f)
\* returns the properties list of the "*" rule's first feature rule matching
\* f (unless the "*" rule's downtime window contains now, when the thing is
\* suppressed), never a selector of the later exact-id rule.
C1_FirstMatchWins ==
    Called =>
        \A i \in EntriesForThing : \A j \in MatchingThingRules(i) :
            (StarBeforeExact(i, j) /\ ~WindowHolds(RqThings(i)[j].downtime, rq.now)) =>
                LET k == Min(MatchingFeatureRules(i, j))
                IN  /\ rs.kind = "selector"
                    /\ rs.rule = <<i, j, k>>
                    /\ rs.props = RqThings(i)[j].features[k].properties

\* The first thing rule matching the thing, in declaration order.
FirstThingRule == LET i == Min(EntriesForThing) IN RqThings(i)[Min(MatchingThingRules(i))]

\* C2: Downtime suppression is whole-thing.  When the first thing rule
\* matching thing T has a downtime window with start <= now <= end, the call
\* returns None for every feature id, whatever feature rules that thing rule
\* declares, and no feature rule is consulted.
C2_DowntimeWholeThing ==
    (Called /\ EntriesForThing # {} /\ WindowHolds(FirstThingRule.downtime, rq.now)) =>
        /\ rs.kind = "none"
        /\ rs.consulted = {}

\* C2 witness: a suppressed thing whose rule carries a "*" feature rule, at
\* the last instant of the window.
C2_Witness ==
    /\ Called /\ EntriesForThing # {}
    /\ WindowHolds(FirstThingRule.downtime, rq.now)
    /\ rq.now = FirstThingRule.downtime.end
    /\ \E k \in 1..Len(FirstThingRule.features) : FirstThingRule.features[k].feature_id = "*"
    /\ rs.kind = "none"

\* The same document with every missing downtime block replaced by a window
\* that lies after every instant considered.
NeverDown(cfg) ==
    [sources |->
        [i \in 1..Len(cfg.sources) |->
            [cfg.sources[i] EXCEPT !.things =
                [j \in 1..Len(cfg.sources[i].things) |->
                    IF cfg.sources[i].things[j].downtime.kind = "absent"
                    THEN [cfg.sources[i].things[j] EXCEPT
                            !.downtime = Window(MaxTime + 1, MaxTime + 1)]
                    ELSE cfg.sources[i].things[j]]]]]

\* C10: a thing rule without a downtime block is treated as never in
\* downtime: the call does not fail on it and returns what it returns for the
\* same rule with a downtime window that does not contain now.
C10_NoDowntimeNeverDown ==
    (Called /\ EntriesForThing # {} /\ FirstThingRule.downtime.kind = "absent") =>
        /\ rs.kind # "raise"
        /\ rs = get_export_config(rq.source_url, rq.thing_id, rq.feature_id,
                                  NeverDown(rq.config), rq.now)

\* C11: policy errors do not crash the resolver.  For every policy document,
\* a malformed downtime timestamp or a missing downtime block included,
\* get_export_config returns a selector or None and does not raise.
C11_ResolverNeverRaises == Called => rs.kind \in {"selector", "none"}

\* C20: resolver exhaustion.  When the first thing rule matching the thing,
\* in the first source entry for the url that has one, has a downtime window
\* that does not contain now and none of its feature rules matches the
\* feature id, the call returns None and no later thing rule or source entry
\* is consulted.
C20_ExhaustionReturnsNone ==
    (Called /\ EntriesForThing # {}) =>
        LET i == Min(EntriesForThing)
            j == Min(MatchingThingRules(i))
        IN  ( /\ MatchingFeatureRules(i, j) = {}
              /\ RqThings(i)[j].downtime.kind = "window"
              /\ ~WindowHolds(RqThings(i)[j].downtime, rq.now) )
                => /\ rs.kind = "none"
                   /\ \A c \in rs.consulted : c[1] = i /\ c[2] = j

(***************************************************************************)
(* Claims about the Signature Gate (SpecSig).                              *)
(***************************************************************************)
Verified == vr.result # "pending"
Props == feature_data.properties
HasSignature == feature_data.has_properties /\ "signature" \in DictKeys(Props)

\* The bundle is, as a mapping, exactly what the producer wrote.
AsProduced ==
    feature_data.has_properties /\ DictContent(Props) = DictContent(signed.bundle)

\* The signature field is the producer's, and some signed property now has
\* another value.
ValueChanged ==
    /\ HasSignature
    /\ DictGet(Props, "signature") = DictGet(signed.bundle, "signature")
    /\ \E key \in DictKeys(signed.payload) \cap DictKeys(Props) :
            DictGet(Props, key) # DictGet(signed.payload, key)

\* C7: Signature gate rejects tampering.  verify_feature_signature returns
\* true for a bundle exactly as produced by the signer, checked with the
\* public key of the signer's key pair, and false when a non-signature
\* property value was changed while the signature field was left unchanged.
C7_GateRejectsTampering ==
    Verified =>
        /\ (AsProduced /\ public_key = signed.key) => vr.result = "True"
        /\ ValueChanged => vr.result = "False"

\* C7 witness: a bundle with a changed value and the untouched signature was
\* checked against the signer's own public key, and rejected.
C7_Witness ==
    Verified /\ ValueChanged /\ public_key = signed.key /\ vr.result = "False"

\* The inputs the gate has to reject.
NoPropertiesKey == ~feature_data.has_properties
NoSignatureField == feature_data.has_properties /\ "signature" \notin DictKeys(Props)
EmptySignature == HasSignature /\ ~py_truthy(DictGet(Props, "signature"))
MalformedBase64 == HasSignature /\ b64decode_raises(DictGet(Props, "signature"))
KeyFileUnusable == public_key \in {"missing", "unparsable"}
CryptoMismatch ==
    /\ HasSignature /\ public_key \in KeyPairs
    /\ ~pss_valid(public_key, DictGet(Props, "signature").s,
                  json_dumps_sorted(DictWithout(Props, "signature")))

\* C8: the Signature Gate never throws.  For every input (no "properties"
\* key, no "signature" field, empty signature, malformed base64, missing or
\* unparsable key file, cryptographic mismatch) the call returns false
\* instead of raising.
C8_GateNeverThrows ==
    Verified =>
        /\ vr.result \in {"True", "False"}
        /\ (NoPropertiesKey \/ NoSignatureField \/ EmptySignature \/ MalformedBase64
              \/ KeyFileUnusable \/ CryptoMismatch) => vr.result = "False"

\* C8 witness: a well-formed signature checked against a key file that does
\* not parse (load_pem_public_key raises inside the try block).
C8_Witness ==
    /\ Verified /\ public_key = "unparsable"
    /\ HasSignature /\ ~EmptySignature /\ ~MalformedBase64
    /\ vr.result = "False"

\* C9: Canonicalization stability.  The bytes the verifier checks for a
\* bundle (the bundle minus "signature") are the bytes the producer signed
\* whenever the two mappings have the same key-value content, whatever the
\* insertion order of either.
C9_CanonicalBytesStable ==
    (Verified /\ HasSignature /\ ~EmptySignature
       /\ DictContent(DictWithout(Props, "signature")) = DictContent(signed.payload))
    => vr.payload_bytes = signed.payload_bytes

\* C9 witness: the verifier received the producer's content with the keys in
\* another order and computed the producer's bytes.
C9_Witness ==
    /\ Verified /\ HasSignature /\ ~EmptySignature
    /\ DictContent(DictWithout(Props, "signature")) = DictContent(signed.payload)
    /\ DictWithout(Props, "signature") # signed.payload
    /\ vr.payload_bytes = signed.payload_bytes

(***************************************************************************)
(* The two registries as the exporter sees them.                           *)
(*                                                                         *)
(* A pass threads a record `st` through its calls: the target registry,   *)
(* the log, the number of calls issued, the position `failAt` of the call  *)
(* that meets a transport error (0: none does), whether an exception is    *)
(* propagating, and the answer to the last read.                           *)
(***************************************************************************)
Entry(st, op, kind, thing, feature, prop, ok) ==
    [pass |-> st.pass, src |-> st.src, op |-> op, kind |-> kind,
     thing |-> thing, feature |-> feature, prop |-> prop, ok |-> ok]

StartPass(pass, b, l) ==
    [pass |-> pass, src |-> 0, basyx |-> b, log |-> l, n |-> 0, failAt |-> 0,
     raised |-> FALSE, found |-> FALSE, has_exports |-> FALSE,
     items |-> <<>>, elems |-> <<>>, racer |-> {}]

\* The call about to be issued is the one that meets the transport error.
Failing(st) == st.n + 1 = st.failAt
Issue(st, e) == [st EXCEPT !.n = @ + 1, !.log = Append(@, e)]
\* The call raises (requests exception or raise_for_status).
Raise(st, e) == [Issue(st, e) EXCEPT !.raised = TRUE]

ElementExists(b, thing, feature, prop) ==
    \E e \in b.elements : e[1] = thing /\ e[2] = feature /\ e[3] = prop
SetElement(b, thing, feature, prop, value) ==
    [b EXCEPT !.elements =
        {e \in @ : ~(e[1] = thing /\ e[2] = feature /\ e[3] = prop)}
            \cup {<<thing, feature, prop, value>>}]

\* get_ditto_things (exporter.py:124-131)
get_ditto_things(st) ==
    IF Failing(st) THEN Raise(st, Entry(st, "GET", "things", "", "", "", FALSE))
    ELSE Issue(st, Entry(st, "GET", "things", "", "", "", TRUE))

\* get_ditto_features (exporter.py:356-361)
get_ditto_features(st, thing) ==
    IF Failing(st) THEN Raise(st, Entry(st, "GET", "features", thing, "", "", FALSE))
    ELSE Issue(st, Entry(st, "GET", "features", thing, "", "", TRUE))

\* get_basyx_shell (exporter.py:134-141)
get_basyx_shell(st, thing) ==
    IF Failing(st) THEN Raise(st, Entry(st, "GET", "shell", thing, "", "", FALSE))
    ELSE [Issue(st, Entry(st, "GET", "shell", thing, "", "", TRUE))
            EXCEPT !.found = thing \in st.basyx.shells]

\* create_basyx_shell (exporter.py:144-159): the registry refuses an id it
\* already holds, and raise_for_status raises.
create_basyx_shell(st, thing) ==
    IF Failing(st) \/ thing \in st.basyx.shells
    THEN Raise(st, Entry(st, "POST", "shell", thing, "", "", FALSE))
    ELSE [Issue(st, Entry(st, "POST", "shell", thing, "", "", TRUE))
            EXCEPT !.basyx.shells = @ \cup {thing}]

\* get_basyx_submodel (exporter.py:162-167)
get_basyx_submodel(st, thing, feature) ==
    IF Failing(st) THEN Raise(st, Entry(st, "GET", "submodel", thing, feature, "", FALSE))
    ELSE [Issue(st, Entry(st, "GET", "submodel", thing, feature, "", TRUE))
            EXCEPT !.found = <<thing, feature>> \in st.basyx.submodels]

\* create_basyx_submodel (exporter.py:326-353): create, then attach to the shell.
create_basyx_submodel(st, thing, feature) ==
    IF Failing(st) \/ <<thing, feature>> \in st.basyx.submodels
    THEN Raise(st, Entry(st, "POST", "submodel", thing, feature, "", FALSE))
    ELSE LET s1 == [Issue(st, Entry(st, "POST", "submodel", thing, feature, "", TRUE))
                        EXCEPT !.basyx.submodels = @ \cup {<<thing, feature>>}]
         IN  IF Failing(s1) \/ thing \notin s1.basyx.shells
             THEN Raise(s1, Entry(s1, "POST", "ref", thing, feature, "", FALSE))
             ELSE [Issue(s1, Entry(s1, "POST", "ref", thing, feature, "", TRUE))
                        EXCEPT !.basyx.refs = Append(@, <<thing, feature>>)]

\* The body of the PATCH at exporter.py:386: the text f'"{value}"'.
patch_text(value) == "\"" \o py_str(value) \o "\""

\* exporter.py:364-387 with the create branch taken whatever the read check
\* answered.
update_always_creates(st, thing, feature, prop, value) ==
    IF Failing(st) THEN Raise(st, Entry(st, "GET", "element", thing, feature, prop, FALSE))
    ELSE LET s1 == Issue(st, Entry(st, "GET", "element", thing, feature, prop, TRUE))
         IN  IF Failing(s1) \/ <<thing, feature>> \notin s1.basyx.submodels
             THEN Raise(s1, Entry(s1, "POST", "element", thing, feature, prop, FALSE))
             ELSE [Issue(s1, Entry(s1, "POST", "element", thing, feature, prop, TRUE))
                     EXCEPT !.basyx = SetElement(@, thing, feature, prop, py_str(value))]

\* update_basyx_element (exporter.py:364-387)
update_basyx_element(st, thing, feature, prop, value) ==
    IF Failing(st) THEN Raise(st, Entry(st, "GET", "element", thing, feature, prop, FALSE))
    ELSE LET s1 == Issue(st, Entry(st, "GET", "element", thing, feature, prop, TRUE))
         IN  IF ~ElementExists(st.basyx, thing, feature, prop)
             THEN IF Failing(s1) \/ <<thing, feature>> \notin s1.basyx.submodels
                  THEN Raise(s1, Entry(s1, "POST", "element", thing, feature, prop, FALSE))
                  ELSE [Issue(s1, Entry(s1, "POST", "element", thing, feature, prop, TRUE))
                          EXCEPT !.basyx = SetElement(@, thing, feature, prop, py_str(value))]
             ELSE IF Failing(s1)
                  THEN Raise(s1, Entry(s1, "PATCH", "element", thing, feature, prop, FALSE))
                  ELSE [Issue(s1, Entry(s1, "PATCH", "element", thing, feature, prop, TRUE))
                          EXCEPT !.basyx = SetElement(@, thing, feature, prop, patch_text(value))]

\* exporter.py:472-473
RECURSIVE update_elements(_, _, _, _)
update_elements(st, thing, feature, properties) ==
    IF st.raised \/ Len(properties) = 0 THEN st
    ELSE update_elements(
            update_basyx_element(st, thing, feature, properties[1][1], properties[1][2]),
            thing, feature, Tail(properties))

\* exporter.py:462-469
filter_properties(all_properties, properties_to_export) ==
    IF "*" \in properties_to_export THEN all_properties
    ELSE SelectSeq(all_properties, LAMBDA item : item[1] \in properties_to_export)

\* exporter.py:454-459 with the verdict of the gate ignored.
gate_ignored(cfg, feature, key_file) == TRUE

\* exporter.py:454-459 with the bundle verified whatever the policy says.
gate_always_on(cfg, feature, key_file) ==
    verify_feature_signature([has_properties |-> TRUE, properties |-> feature.properties],
                             key_file).result = "True"

\* exporter.py:454-459: the gate lets the feature through.
gate_open(cfg, feature, key_file) ==
    \/ ~cfg.verify_signatures
    \/ verify_feature_signature([has_properties |-> TRUE, properties |-> feature.properties],
                                key_file).result = "True"

\* attack.py:221-223 (create_basyx_shell, 86-103) run by another process:
\* for the things in st.racer its POST of the Shell reaches the registry
\* after the exporter's GET answered 404 and before the exporter's POST.
other_writer(st, thing) ==
    IF thing \in st.racer /\ thing \notin st.basyx.shells
    THEN [st EXCEPT !.basyx.shells = @ \cup {thing},
                    !.log = Append(@, [Entry(st, "POST", "shell", thing, "", "", TRUE)
                                          EXCEPT !.pass = "attack"])]
    ELSE st

\* exporter.py:438-443
ensure_shell(st, thing) ==
    IF st.has_exports THEN st
    ELSE LET g == get_basyx_shell(st, thing)
             c == IF g.raised \/ g.found THEN g
                  ELSE create_basyx_shell(other_writer(g, thing), thing)
         IN  IF c.raised THEN c ELSE [c EXCEPT !.has_exports = TRUE]

\* exporter.py:445-449
ensure_submodel(st, thing, feature) ==
    LET g == get_basyx_submodel(st, thing, feature)
    IN  IF g.raised \/ g.found THEN g ELSE create_basyx_submodel(g, thing, feature)

\* exporter.py:432-473 with the test of line 435 moved after the Shell and
\* the Submodel are ensured.
export_feature_skips_late(st, cfg, url, thing, feature, t, key_file) ==
    LET r == get_export_config(url, thing, feature.feature_id, cfg, t)
    IN  IF r.kind = "raise"
        THEN [st EXCEPT !.raised = TRUE,
                        !.log = Append(@, Entry(st, "resolve", "config", thing,
                                                feature.feature_id, "", FALSE))]
        ELSE LET s1 == ensure_shell(st, thing)
                 s2 == IF s1.raised THEN s1 ELSE ensure_submodel(s1, thing, feature.feature_id)
             IN  IF s2.raised \/ r.kind = "none" THEN s2
                 ELSE IF ~gate_open(cfg, feature, key_file)
                 THEN [s2 EXCEPT !.log = Append(@, Entry(s2, "verify", "gate", thing,
                                                         feature.feature_id, "", FALSE))]
                 ELSE update_elements(s2, thing, feature.feature_id,
                                      filter_properties(feature.properties, r.props))

\* exporter.py:432-473: the body of the loop over a thing's features.
export_feature(st, cfg, url, thing, feature, t, key_file) ==
    LET r == get_export_config(url, thing, feature.feature_id, cfg, t)
    IN  IF r.kind = "raise"
        THEN [st EXCEPT !.raised = TRUE,
                        !.log = Append(@, Entry(st, "resolve", "config", thing,
                                                feature.feature_id, "", FALSE))]
        ELSE IF r.kind = "none" THEN st
        ELSE LET s1 == ensure_shell(st, thing)
                 s2 == IF s1.raised THEN s1 ELSE ensure_submodel(s1, thing, feature.feature_id)
             IN  IF s2.raised THEN s2
                 ELSE IF ~gate_open(cfg, feature, key_file)
                 THEN [s2 EXCEPT !.log = Append(@, Entry(s2, "verify", "gate", thing,
                                                         feature.feature_id, "", FALSE))]
                 ELSE update_elements(s2, thing, feature.feature_id,
                                      filter_properties(feature.properties, r.props))

RECURSIVE export_features(_, _, _, _, _, _, _)
export_features(st, cfg, url, thing, features, t, key_file) ==
    IF st.raised \/ Len(features) = 0 THEN st
    ELSE export_features(export_feature(st, cfg, url, thing, features[1], t, key_file),
                         cfg, url, thing, Tail(features), t, key_file)

\* exporter.py:420-473: the loop over the things of one source.
RECURSIVE export_things(_, _, _, _, _, _)
export_things(st, cfg, url, things, t, key_file) ==
    IF st.raised \/ Len(things) = 0 THEN st
    ELSE LET f == get_ditto_features(st, things[1].thingId)
             e == IF f.raised THEN f
                  ELSE export_features([f EXCEPT !.has_exports = FALSE], cfg, url,
                                       things[1].thingId, things[1].features, t, key_file)
         IN  export_things(e, cfg, url, Tail(things), t, key_file)

\* exporter.py:410-483: one source entry; the exception, if any, ends here.
export_source(st, cfg, i, world, t, key_file) ==
    LET url == cfg.sources[i].source_url
        s0 == [st EXCEPT !.src = i]
        g == get_ditto_things(s0)
    IN  IF g.raised THEN g ELSE export_things(g, cfg, url, world[url], t, key_file)

(***************************************************************************)
(* cleanup_basyx_resources (exporter.py:226-323)                           *)
(***************************************************************************)
\* exporter.py:258-263 with thing_has_exports left False whatever the
\* resolver returns.
thing_has_exports_never(cfg, url, thing, features, t) == "no"

\* exporter.py:257-261: "yes" at the first feature that resolves to a
\* selector, "no" when none does, "raise" when the resolver raises first.
RECURSIVE thing_has_exports(_, _, _, _, _)
thing_has_exports(cfg, url, thing, features, t) ==
    IF Len(features) = 0 THEN "no"
    ELSE LET r == get_export_config(url, thing, features[1].feature_id, cfg, t)
         IN  IF r.kind = "raise" THEN "raise"
             ELSE IF r.kind = "selector" THEN "yes"
             ELSE thing_has_exports(cfg, url, thing, Tail(features), t)

\* exporter.py:264-272
queue_whole_thing(st, thing, features) ==
    [st EXCEPT !.items = @ \o <<[kind |-> "shell", thing |-> thing, feature |-> "", src |-> st.src]>>
                           \o [n \in 1..Len(features) |->
                                 [kind |-> "submodel", thing |-> thing,
                                  feature |-> features[n].feature_id, src |-> st.src]]]

\* exporter.py:290-295 without the test of line 293: every property of the
\* feature is queued.
left_out_everything(st, thing, feature, props) ==
    [n \in 1..Len(feature.properties) |->
        [thing |-> thing, feature |-> feature.feature_id,
         prop |-> feature.properties[n][1], src |-> st.src]]

\* exporter.py:290-295: the properties of a configured feature the selector
\* leaves out.
left_out(st, thing, feature, props) ==
    LET names == SelectSeq(feature.properties, LAMBDA item : item[1] \notin props)
    IN  [n \in 1..Len(names) |->
            [thing |-> thing, feature |-> feature.feature_id, prop |-> names[n][1],
             src |-> st.src]]

\* exporter.py:273-295
RECURSIVE queue_features(_, _, _, _, _, _)
queue_features(st, cfg, url, thing, features, t) ==
    IF st.raised \/ Len(features) = 0 THEN st
    ELSE LET f == features[1]
             r == get_export_config(url, thing, f.feature_id, cfg, t)
             s1 == IF r.kind = "raise"
                   THEN [st EXCEPT !.raised = TRUE,
                                   !.log = Append(@, Entry(st, "resolve", "config", thing,
                                                           f.feature_id, "", FALSE))]
                   ELSE IF r.kind = "none"
                   THEN [st EXCEPT !.items = Append(@, [kind |-> "submodel", thing |-> thing,
                                                        feature |-> f.feature_id, src |-> st.src])]
                   ELSE IF "*" \notin r.props
                   THEN [st EXCEPT !.elems = @ \o left_out(st, thing, f, r.props)]
                   ELSE st
         IN  queue_features(s1, cfg, url, thing, Tail(features), t)

\* exporter.py:249-295: the loop over the things of one source.
RECURSIVE enumerate_things(_, _, _, _, _)
enumerate_things(st, cfg, url, things, t) ==
    IF st.raised \/ Len(things) = 0 THEN st
    ELSE LET thing == things[1].thingId
             f == get_ditto_features(st, thing)
             h == thing_has_exports(cfg, url, thing, things[1].features, t)
             e == IF f.raised THEN f
                  ELSE IF h = "raise"
                  THEN [f EXCEPT !.raised = TRUE,
                                 !.log = Append(@, Entry(f, "resolve", "config", thing, "", "", FALSE))]
                  ELSE IF h = "no" THEN queue_whole_thing(f, thing, things[1].features)
                  ELSE queue_features(f, cfg, url, thing, things[1].features, t)
         IN  enumerate_things(e, cfg, url, Tail(things), t)

\* exporter.py:240-295 with the loop running over every source registry
\* instead of the source entries of the policy.
enumerate_every_registry(st, cfg, i, world, t) ==
    LET g1 == get_ditto_things([st EXCEPT !.src = 1])
        e1 == IF g1.raised THEN g1 ELSE enumerate_things(g1, cfg, "u1", world["u1"], t)
        g2 == IF e1.raised THEN e1 ELSE get_ditto_things([e1 EXCEPT !.src = 2])
    IN  IF g2.raised THEN g2 ELSE enumerate_things(g2, cfg, "u2", world["u2"], t)

\* exporter.py:240-295: the loop over the source entries.
RECURSIVE enumerate_sources(_, _, _, _, _)
enumerate_sources(st, cfg, i, world, t) ==
    IF st.raised \/ i > Len(cfg.sources) THEN st
    ELSE LET url == cfg.sources[i].source_url
             g == get_ditto_things([st EXCEPT !.src = i])
             e == IF g.raised THEN g ELSE enumerate_things(g, cfg, url, world[url], t)
         IN  enumerate_sources(e, cfg, i + 1, world, t)

\* delete_basyx_shell against a registry that removes the Submodels and
\* Elements of a Shell together with the Shell.
delete_basyx_shell_cascades(st, item) ==
    LET s0 == [st EXCEPT !.src = item.src]
    IN  IF Failing(s0) \/ item.thing \notin s0.basyx.shells
        THEN Issue(s0, Entry(s0, "DELETE", "shell", item.thing, "", "", FALSE))
        ELSE [Issue(s0, Entry(s0, "DELETE", "shell", item.thing, "", "", TRUE))
                EXCEPT !.basyx.shells = @ \ {item.thing},
                       !.basyx.refs = SelectSeq(@, LAMBDA ref : ref[1] # item.thing),
                       !.basyx.submodels = {sm \in @ : sm[1] # item.thing},
                       !.basyx.elements = {e \in @ : e[1] # item.thing}]

\* delete_basyx_shell (exporter.py:170-181): True on a 200 answer only.
delete_basyx_shell(st, item) ==
    LET s0 == [st EXCEPT !.src = item.src]
    IN  IF Failing(s0) \/ item.thing \notin s0.basyx.shells
        THEN Issue(s0, Entry(s0, "DELETE", "shell", item.thing, "", "", FALSE))
        ELSE [Issue(s0, Entry(s0, "DELETE", "shell", item.thing, "", "", TRUE))
                EXCEPT !.basyx.shells = @ \ {item.thing},
                       !.basyx.refs = SelectSeq(@, LAMBDA ref : ref[1] # item.thing)]

\* delete_basyx_submodel (exporter.py:184-195): the elements go with it.
delete_basyx_submodel(st, item) ==
    LET s0 == [st EXCEPT !.src = item.src]
    IN  IF Failing(s0) \/ <<item.thing, item.feature>> \notin s0.basyx.submodels
        THEN Issue(s0, Entry(s0, "DELETE", "submodel", item.thing, item.feature, "", FALSE))
        ELSE [Issue(s0, Entry(s0, "DELETE", "submodel", item.thing, item.feature, "", TRUE))
                EXCEPT !.basyx.submodels = @ \ {<<item.thing, item.feature>>},
                       !.basyx.elements =
                            {e \in @ : ~(e[1] = item.thing /\ e[2] = item.feature)}]

\* delete_basyx_element (exporter.py:198-209)
delete_basyx_element(st, item) ==
    LET s0 == [st EXCEPT !.src = item.src]
    IN  IF Failing(s0) \/ ~ElementExists(s0.basyx, item.thing, item.feature, item.prop)
        THEN Issue(s0, Entry(s0, "DELETE", "element", item.thing, item.feature, item.prop, FALSE))
        ELSE [Issue(s0, Entry(s0, "DELETE", "element", item.thing, item.feature, item.prop, TRUE))
                EXCEPT !.basyx.elements =
                    {e \in @ : ~(e[1] = item.thing /\ e[2] = item.feature /\ e[3] = item.prop)}]

\* exporter.py:302-308 with a failed delete ending the loop.
RECURSIVE delete_items_stops(_, _)
delete_items_stops(st, items) ==
    IF Len(items) = 0 THEN st
    ELSE LET d == IF items[1].kind = "shell" THEN delete_basyx_shell(st, items[1])
                  ELSE delete_basyx_submodel(st, items[1])
         IN  IF ~d.log[Len(d.log)].ok THEN d ELSE delete_items_stops(d, Tail(items))

\* exporter.py:302-308
RECURSIVE delete_items(_, _)
delete_items(st, items) ==
    IF Len(items) = 0 THEN st
    ELSE delete_items(IF items[1].kind = "shell" THEN delete_basyx_shell(st, items[1])
                      ELSE delete_basyx_submodel(st, items[1]),
                      Tail(items))

\* exporter.py:311-313
RECURSIVE delete_elements(_, _)
delete_elements(st, elems) ==
    IF Len(elems) = 0 THEN st
    ELSE delete_elements(delete_basyx_element(st, elems[1]), Tail(elems))

\* exporter.py:226-323 with the Element loop (311-313) run before the
\* Shell/Submodel loop (302-308).
cleanup_elements_first(st, cfg, world, t) ==
    IF ~cfg.basyx_url THEN st
    ELSE LET e == enumerate_sources(st, cfg, 1, world, t)
         IN  IF e.raised THEN e
             ELSE delete_items(delete_elements(e, e.elems), e.items)

\* exporter.py:226-323: nothing is deleted when the enumeration raises.
cleanup_basyx_resources(st, cfg, world, t) ==
    IF ~cfg.basyx_url THEN st
    ELSE LET e == enumerate_sources(st, cfg, 1, world, t)
         IN  IF e.raised THEN e
             ELSE delete_elements(delete_items(e, e.items), e.elems)

(***************************************************************************)
(* Spec: the scheduler loop (exporter.py:390-487) between the two          *)
(* registries.  The source registry holds thing t1 under u1 (a signed      *)
(* feature f1 and an unsigned feature f2) and one thing under u2, whose id *)
(* may or may not be t1 as well.                                           *)
(***************************************************************************)
PropsAB == <<<<"a", PyInt("1")>>, <<"b", PyBool(TRUE)>>>>
PropsABC == Append(PropsAB, <<"c", PyStr("x")>>)

\* valve.py:28-30: the producer signs what it writes.
signed_bundle(payload, private_key, salt) ==
    DictSet(payload, "signature", PyStr(sign_json_payload(payload, private_key, salt)))

\* attack_2.py:150-159: any values, under a random signature.
forged_bundle(properties) == DictSet(properties, "signature", PyStr("forged"))

World(f1_properties, other_id) ==
    [u \in SourceUrls |->
        IF u = "u1"
        THEN << [thingId |-> "t1",
                 features |-> << [feature_id |-> "f1", properties |-> f1_properties],
                                 [feature_id |-> "f2", properties |-> <<<<"a", PyInt("1")>>>>] >>] >>
        ELSE << [thingId |-> other_id,
                 features |-> << [feature_id |-> "f1", properties |-> <<<<"a", PyInt("2")>>>>] >>] >>]

\* The policy documents load_config can return (exporter.py:16-29): the
\* document on disk, or EmptyPolicy when the file is missing or unreadable.
F2All == [feature_id |-> "f2", properties |-> {"*"}]
MainRule(d, fl) == [thing_id |-> "*", downtime |-> d, features |-> fl]
Entry1(d, fl) == [source_url |-> "u1", things |-> << MainRule(d, fl) >>]
Entry2(tl) == [source_url |-> "u2", things |-> tl]
Policy(v, sources) == [basyx_url |-> TRUE, verify_signatures |-> v, sources |-> sources]
MainPolicies ==
    { EmptyPolicy,
      Policy(TRUE, << Entry1(Window(1, 2), <<AnyFeature>>) >>),
      Policy(FALSE, << Entry1(Window(1, 2), <<AnyFeature>>) >>),
      Policy(FALSE, << Entry1(Window(1, 2), <<OnlyF1, F2All>>) >>),
      Policy(FALSE, << Entry1(Window(1, 2), <<OnlyF1>>) >>),
      Policy(FALSE, << Entry1(Window(1, 2), <<>>) >>),
      Policy(FALSE, << Entry1(NoDowntime, <<AnyFeature>>) >>),
      Policy(FALSE, << Entry1(NoDowntime, <<AnyFeature>>),
                       Entry2(<< MainRule(Window(1, 2), <<AnyFeature>>) >>) >>),
      Policy(TRUE, << Entry1(Window(1, 2), <<OnlyF1, F2All>>),
                      Entry2(<< MainRule(Window(1, 2), <<AnyFeature>>) >>) >>),
      Policy(FALSE, << Entry1(NoDowntime, <<AnyFeature>>), Entry2(<<>>) >>),
      Policy(FALSE, << Entry1(Window(1, 2), <<AnyFeature>>), Entry2(<<>>) >>) }

Init ==
    /\ IdleResolver /\ IdleSig
    /\ public_key = "k1"
    /\ pc = "load" /\ src = 0 /\ cycle = 0
    /\ config = EmptyPolicy
    /\ now = 0
    /\ \E other_id \in ThingIds : ditto = World(signed_bundle(PropsAB, "k1", "s1"), other_id)
    /\ basyx = EmptyTarget
    /\ log = <<>>
    /\ prev = [NoPrev EXCEPT !.start = ditto, !.before = ditto]

\* The registries and the clock move on while the scheduler sleeps; a pass is
\* short against the poll interval and sees one time and one source content.
\* datetime.now() advances.
Tick ==
    /\ pc = "load"
    /\ now < MaxTime
    /\ now' = now + 1
    /\ UNCHANGED <<pc, src, cycle, config, ditto, basyx, log, prev,
                   public_key, resolverVars, sigVars>>

F1Properties == ditto["u1"][1].features[1].properties

\* valve.py:28-36: the producer of u1/t1/f1 writes a bundle that now has
\* property c, freshly signed.
PutProperties ==
    /\ pc = "load"
    /\ F1Properties # signed_bundle(PropsABC, "k1", "s2")
    /\ ditto' = [ditto EXCEPT !["u1"][1].features[1].properties =
                                   signed_bundle(PropsABC, "k1", "s2")]
    /\ UNCHANGED <<pc, src, cycle, config, now, basyx, log, prev,
                   public_key, resolverVars, sigVars>>

\* attack_2.py:137-167: the features of u1/t1 are served under a signature
\* that was not made with the producer's key.
ServeForged ==
    /\ pc = "load"
    /\ F1Properties # forged_bundle(F1Properties)
    /\ ditto' = [ditto EXCEPT !["u1"][1].features[1].properties = forged_bundle(@)]
    /\ UNCHANGED <<pc, src, cycle, config, now, basyx, log, prev,
                   public_key, resolverVars, sigVars>>

\* No registry call of the cycle was refused or lost.
NoCallFailed(l) ==
    \A n \in 1..Len(l) : l[n].op \in {"GET", "POST", "PATCH", "DELETE"} => l[n].ok \/ l[n].op = "DELETE"

\* exporter.py:393: config = load_config(), the file holding one of `policies`.
Load(policies) ==
    /\ pc = "load" /\ cycle < MaxCycles
    /\ \E c \in policies :
         /\ config' = c
         /\ prev' = [cfg_same |-> cycle >= 1 /\ c = config,
                     before |-> prev.start, pnow |-> prev.now0,
                     pclean |-> NoCallFailed(log),
                     start |-> ditto, now0 |-> now]
    /\ cycle' = cycle + 1
    /\ pc' = "cleanup" /\ src' = 0
    /\ log' = <<>>
    /\ UNCHANGED <<now, ditto, basyx, public_key, resolverVars, sigVars>>

LoadConfig == Load(MainPolicies)

\* exporter.py:410-483 without the handler at 481-483: the exception of a
\* source leaves the loop and the process.
after_source_unhandled(raised, i, n) ==
    IF raised THEN [pc |-> "crashed", src |-> 0]
    ELSE IF i < n THEN [pc |-> "export", src |-> i + 1]
    ELSE [pc |-> "sleep", src |-> 0]

\* exporter.py:410-485 without the sleep at 485-486: the next cycle starts
\* right after the last source.
after_source_no_sleep(raised, i, n) ==
    IF i < n THEN [pc |-> "export", src |-> i + 1]
    ELSE [pc |-> "load", src |-> 0]

\* exporter.py:410, 481-485: where the loop over the sources stands after
\* source i of n, whether or not its try block raised.
after_source(raised, i, n) ==
    IF i < n THEN [pc |-> "export", src |-> i + 1]
    ELSE [pc |-> "sleep", src |-> 0]

\* exporter.py:397-408 with cleanup_basyx_resources lacking its handler
\* (321-323): an exception of the pass leaves the loop and the process.
after_cleanup_unhandled(raised, cfg) ==
    IF raised THEN [pc |-> "crashed", src |-> 0]
    ELSE IF cfg.basyx_url /\ Len(cfg.sources) > 0 THEN [pc |-> "export", src |-> 1]
    ELSE [pc |-> "sleep", src |-> 0]

\* exporter.py:321-323, 397-410: where the loop stands after the Cleanup
\* Pass, whether or not the pass raised: at the first source, or at the
\* sleep when no registry url or no source is configured.
after_cleanup(raised, cfg) ==
    IF cfg.basyx_url /\ Len(cfg.sources) > 0 THEN [pc |-> "export", src |-> 1]
    ELSE [pc |-> "sleep", src |-> 0]

\* exporter.py:397-408: the Cleanup Pass, then the check of the target url.
Cleanup ==
    /\ pc = "cleanup"
    /\ \E st \in { cleanup_basyx_resources(StartPass("cleanup", basyx, log), config, ditto, now) } :
           /\ basyx' = st.basyx
           /\ log' = st.log
           /\ pc' = after_cleanup(st.raised, config).pc
           /\ src' = after_cleanup(st.raised, config).src
    /\ UNCHANGED <<cycle, config, now, ditto, prev, public_key, resolverVars, sigVars>>

\* exporter.py:410-483: the reconciliation of one source entry.
ExportSource ==
    /\ pc = "export"
    /\ LET st == export_source(StartPass("export", basyx, log), config, src, ditto,
                               now, public_key)
       IN  /\ basyx' = st.basyx
           /\ log' = st.log
           /\ pc' = after_source(st.raised, src, Len(config.sources)).pc
           /\ src' = after_source(st.raised, src, Len(config.sources)).src
    /\ UNCHANGED <<cycle, config, now, ditto, prev, public_key, resolverVars, sigVars>>

\* exporter.py:485-486: time.sleep(POLL_INTERVAL), then the next cycle.
Sleep ==
    /\ pc = "sleep"
    /\ pc' = "load"
    /\ UNCHANGED <<src, cycle, config, now, ditto, basyx, log, prev,
                   public_key, resolverVars, sigVars>>

Next ==
    \/ LoadConfig
    \/ Cleanup
    \/ ExportSource
    \/ Sleep
    \/ Tick
    \/ PutProperties
    \/ ServeForged

Spec == Init /\ [][Next]_vars

(***************************************************************************)
(* SpecFaults: the scheduler loop over the two-source policies, with       *)
(* registry calls that may be lost: in each pass of the last cycles at     *)
(* most one call meets a transport error (requests raises, or              *)
(* raise_for_status does); the cycles before fill the target undisturbed.  *)
(* The clock stands still, outside every downtime window of the policies.  *)
(***************************************************************************)
TwoSourcePolicies == {p \in MainPolicies : Len(p.sources) = 2}

LoadTwoSources == Load(TwoSourcePolicies)

\* The calls of a pass that may be lost: failAt = 0 loses none, failAt = k
\* loses the k-th call the pass issues (a pass that issues fewer loses none).
FaultPoints(c) == IF c > MaxCycles - MaxFaultCycles THEN 0..MaxCalls ELSE {0}

CleanupFaulty ==
    /\ pc = "cleanup"
    /\ \E st \in { cleanup_basyx_resources(
                        [StartPass("cleanup", basyx, log) EXCEPT !.failAt = f],
                        config, ditto, now) : f \in FaultPoints(cycle) } :
             /\ basyx' = st.basyx
             /\ log' = st.log
             /\ pc' = after_cleanup(st.raised, config).pc
             /\ src' = after_cleanup(st.raised, config).src
    /\ UNCHANGED <<cycle, config, now, ditto, prev, public_key, resolverVars, sigVars>>

ExportSourceFaulty ==
    /\ pc = "export"
    /\ \E st \in { export_source([StartPass("export", basyx, log) EXCEPT !.failAt = f],
                                  config, src, ditto, now, public_key)
                    : f \in FaultPoints(cycle) } :
             /\ basyx' = st.basyx
             /\ log' = st.log
             /\ pc' = after_source(st.raised, src, Len(config.sources)).pc
             /\ src' = after_source(st.raised, src, Len(config.sources)).src
    /\ UNCHANGED <<cycle, config, now, ditto, prev, public_key, resolverVars, sigVars>>

NextFaults ==
    \/ LoadTwoSources
    \/ CleanupFaulty
    \/ ExportSourceFaulty
    \/ Sleep

SpecFaults == Init /\ [][NextFaults]_vars

(***************************************************************************)
(* SpecLoop: the control flow of the scheduler loop alone.  What a pass    *)
(* does to the target is left out; a pass either gets through or raises    *)
(* at some point, for whatever reason (a lost call, an error status, an    *)
(* exception of the resolver), and the log keeps which passes raised.      *)
(***************************************************************************)
PassRaises(pass, i) ==
    [pass |-> pass, src |-> i, op |-> "raise", kind |-> "pass",
     thing |-> "", feature |-> "", prop |-> "", ok |-> FALSE]

\* exporter.py:397, 238-323: the Cleanup Pass returns, having raised inside
\* its try block or not.
CleanupReturns ==
    /\ pc = "cleanup"
    /\ \E raised \in BOOLEAN :
         /\ log' = IF raised THEN Append(log, PassRaises("cleanup", 0)) ELSE log
         /\ pc' = after_cleanup(raised, config).pc
         /\ src' = after_cleanup(raised, config).src
    /\ UNCHANGED <<cycle, config, now, ditto, basyx, prev, public_key, resolverVars, sigVars>>

\* exporter.py:410-483: the body of the loop for one source ends, having
\* raised inside its try block or not.
SourceReturns ==
    /\ pc = "export"
    /\ \E raised \in BOOLEAN :
         /\ log' = IF raised THEN Append(log, PassRaises("export", src)) ELSE log
         /\ pc' = after_source(raised, src, Len(config.sources)).pc
         /\ src' = after_source(raised, src, Len(config.sources)).src
    /\ UNCHANGED <<cycle, config, now, ditto, basyx, prev, public_key, resolverVars, sigVars>>

NextLoop ==
    \/ LoadConfig
    \/ CleanupReturns
    \/ SourceReturns
    \/ Sleep
    \/ Tick

\* The process is single-threaded and every call returns or raises, so the
\* step the loop stands at is eventually taken.
SpecLoop ==
    /\ Init /\ [][NextLoop]_vars
    /\ WF_vars(LoadConfig) /\ WF_vars(CleanupReturns)
    /\ WF_vars(SourceReturns) /\ WF_vars(Sleep)

(***************************************************************************)
(* SpecRace: the scheduler loop next to another writer of the registry     *)
(* (attack.py), whose creation of a Shell may land between the exporter's  *)
(* read of the Shell and its creation of it.                               *)
(***************************************************************************)
Racers == {{}} \cup {{t} : t \in ThingIds}

ExportSourceRaced ==
    /\ pc = "export"
    /\ \E st \in { export_source([StartPass("export", basyx, log) EXCEPT !.racer = r],
                                  config, src, ditto, now, public_key)
                    : r \in Racers } :
             /\ basyx' = st.basyx
             /\ log' = st.log
             /\ pc' = after_source(st.raised, src, Len(config.sources)).pc
             /\ src' = after_source(st.raised, src, Len(config.sources)).src
    /\ UNCHANGED <<cycle, config, now, ditto, prev, public_key, resolverVars, sigVars>>

NextRace ==
    \/ LoadConfig
    \/ Cleanup
    \/ ExportSourceRaced
    \/ Sleep
    \/ Tick

SpecRace == Init /\ [][NextRace]_vars

(***************************************************************************)
(* What the scheduler loop does to the target registry.                    *)
(***************************************************************************)
LogSet(l) == {l[n] : n \in 1..Len(l)}
\* The entries the step under way appends to the log.
NewEntries == {log'[n] : n \in (Len(log) + 1)..Len(log')}
ElementsOf(b, thing, feature) == {e \in b.elements : e[1] = thing /\ e[2] = feature}
LiveThings(url) == {ditto[url][n] : n \in 1..Len(ditto[url])}
LiveFeatures(thing) == {thing.features[m] : m \in 1..Len(thing.features)}
ConfiguredUrls == {config.sources[i].source_url : i \in 1..Len(config.sources)}
ThingIdsOf(url) == {thing.thingId : thing \in LiveThings(url)}
\* No thing id is reported by two configured sources.
UniqueIds ==
    \A u \in ConfiguredUrls, w \in ConfiguredUrls : u # w => ThingIdsOf(u) \cap ThingIdsOf(w) = {}
ElementWrites(entries, thing, feature) ==
    {e \in entries : /\ e.kind = "element" /\ e.op \in {"POST", "PATCH"}
                     /\ e.thing = thing /\ e.feature = feature}
\* The bundle of the feature does not pass verify_feature_signature.
FailsGate(feature) ==
    verify_feature_signature([has_properties |-> TRUE, properties |-> feature.properties],
                             public_key).result # "True"
\* An exception ended the pass under way.
PassRaised == \E e \in NewEntries : ~e.ok /\ e.op # "verify" /\ e.op # "DELETE"

\* C3: with signature verification enabled, the reconciliation of a source
\* neither creates nor updates an Element of a feature whose bundle fails the
\* gate, so the Elements mirrored earlier keep their values; and when the
\* pass gets through the source, the Shell and the Submodel of such a
\* configured feature exist afterwards.
C3_GateFailureWritesNothing ==
    [][(pc = "export" /\ config.verify_signatures) =>
        LET url == config.sources[src].source_url
        IN  \A thing \in LiveThings(url) : \A f \in LiveFeatures(thing) :
              FailsGate(f) =>
                /\ ElementsOf(basyx', thing.thingId, f.feature_id)
                     = ElementsOf(basyx, thing.thingId, f.feature_id)
                /\ ElementWrites(NewEntries, thing.thingId, f.feature_id) = {}
                /\ ( /\ ~PassRaised
                     /\ get_export_config(url, thing.thingId, f.feature_id, config, now).kind
                          = "selector" )
                   => /\ thing.thingId \in basyx'.shells
                      /\ <<thing.thingId, f.feature_id>> \in basyx'.submodels]_vars

\* A forged bundle met the gate in a pass that found Elements of the feature
\* mirrored by an earlier pass; the Shell and the Submodel are there.
C3_Witness ==
    /\ pc = "sleep" /\ config.verify_signatures
    /\ F1Properties = forged_bundle(F1Properties)
    /\ \E e \in LogSet(log) : e.op = "verify" /\ e.thing = "t1" /\ e.feature = "f1"
    /\ \E e \in ElementsOf(basyx, "t1", "f1") : e[3] = "a"
    /\ "t1" \in basyx.shells /\ <<"t1", "f1">> \in basyx.submodels

\* The cycle that is finishing ran with the policy, the source content and
\* the clock of the cycle before it, and no call of either was lost.
SecondOfTwo ==
    /\ pc = "sleep" /\ cycle >= 2
    /\ prev.cfg_same /\ prev.before = ditto /\ prev.pnow = now
    /\ prev.pclean /\ NoCallFailed(log)

\* C4 (as corrected): in the second of two successive cycles with unchanged
\* policy, source content and clock, and thing ids unique across the
\* configured sources, nothing is created (no POST) and nothing is deleted;
\* the only mutating calls are the PATCHes that overwrite Elements which
\* exist.
C4_SecondPassCreatesNothing ==
    (SecondOfTwo /\ UniqueIds) =>
        \A e \in LogSet(log) :
            /\ e.op # "POST"
            /\ e.op = "DELETE" => ~e.ok
            /\ e.op = "PATCH" => /\ e.kind = "element"
                                 /\ ElementExists(basyx, e.thing, e.feature, e.prop)

\* A second cycle that found what the first one mirrored and overwrote it.
C4_Witness ==
    /\ SecondOfTwo /\ UniqueIds
    /\ \E e \in LogSet(log) : e.op = "PATCH" /\ e.thing = "t1" /\ e.feature = "f1" /\ e.ok

\* C4 as stated: the second cycle issues no POST and no PATCH.
C4_NoMutatingCall ==
    (SecondOfTwo /\ UniqueIds) => \A e \in LogSet(log) : e.op \notin {"POST", "PATCH"}

\* The policy as its authors read it: a thing rule without a downtime block
\* is never in downtime.
AsSpecified(cfg) ==
    [cfg EXCEPT !.sources =
        [i \in 1..Len(cfg.sources) |->
            [cfg.sources[i] EXCEPT !.things =
                [j \in 1..Len(cfg.sources[i].things) |->
                    IF cfg.sources[i].things[j].downtime.kind = "absent"
                    THEN [cfg.sources[i].things[j] EXCEPT !.downtime = Window(1, 0)]
                    ELSE cfg.sources[i].things[j]]]]]
Specified(url, thing_id, feature_id) ==
    get_export_config(url, thing_id, feature_id, AsSpecified(config), now)

\* C5: for a thing of a configured source (thing ids unique across sources),
\* the Cleanup Pass removes the Submodel of every live feature the policy
\* no longer configures; when another live feature is still configured the
\* Shell and the Submodels of the configured features stay, otherwise the
\* Shell is removed as well.
C5_CleanupReversesRemoval ==
    [][(pc = "cleanup" /\ config.basyx_url /\ UniqueIds) =>
        \A url \in ConfiguredUrls : \A thing \in LiveThings(url) :
            LET T == thing.thingId
                kept == {f \in LiveFeatures(thing) :
                            Specified(url, T, f.feature_id).kind = "selector"}
            IN  \A f \in LiveFeatures(thing) \ kept :
                  /\ <<T, f.feature_id>> \notin basyx'.submodels
                  /\ IF kept # {}
                     THEN /\ T \in basyx.shells => T \in basyx'.shells
                          /\ \A g \in kept : <<T, g.feature_id>> \in basyx.submodels
                                                => <<T, g.feature_id>> \in basyx'.submodels
                     ELSE T \notin basyx'.shells]_vars

FeatureOf(world, url, thing_id, feature_id) ==
    LET thing == CHOOSE x \in {world[url][n] : n \in 1..Len(world[url])} : x.thingId = thing_id
    IN  CHOOSE f \in LiveFeatures(thing) : f.feature_id = feature_id

\* C6: when the policy is unchanged and the selector of a live feature
\* contains "*", the pass following one in which the source reported fewer
\* properties creates an Element for each new property and upserts every
\* property the source reports now (the bundle passing the gate where the
\* gate is on).
C6_WildcardLive ==
    (pc = "sleep" /\ cycle >= 2 /\ prev.cfg_same /\ config.basyx_url /\ UniqueIds) =>
        \A url \in ConfiguredUrls : \A thing \in LiveThings(url) : \A f \in LiveFeatures(thing) :
            LET T == thing.thingId
                r == Specified(url, T, f.feature_id)
                before == DictKeys(FeatureOf(prev.before, url, T, f.feature_id).properties)
                current == DictKeys(f.properties)
            IN  ( /\ r.kind = "selector" /\ "*" \in r.props
                  /\ config.verify_signatures => ~FailsGate(f)
                  /\ before # current /\ before \subseteq current )
                => /\ \A p \in current \ before :
                        \E e \in LogSet(log) :
                            /\ e.op = "POST" /\ e.kind = "element" /\ e.ok
                            /\ e.thing = T /\ e.feature = f.feature_id /\ e.prop = p
                   /\ \A p \in current :
                        /\ ElementExists(basyx, T, f.feature_id, p)
                        /\ \E e \in ElementWrites(LogSet(log), T, f.feature_id) : e.prop = p /\ e.ok

(***************************************************************************)
(* Failure isolation (SpecFaults)                                          *)
(***************************************************************************)
\* The object a successful write call reports is in the target b.
Written(e, b) ==
    CASE e.kind = "shell" -> e.thing \in b.shells
      [] e.kind = "submodel" -> <<e.thing, e.feature>> \in b.submodels
      [] e.kind = "element" -> ElementExists(b, e.thing, e.feature, e.prop)
      [] OTHER -> TRUE
OkWrites(entries) == {e \in entries : e.ok /\ e.op \in {"POST", "PATCH"}}
ExportEntries(l, i) == {e \in LogSet(l) : e.pass = "export" /\ e.src = i}

\* C12: per-source failure isolation in reconciliation. When the processing
\* of source i raises, at whichever call, the loop goes on to source i + 1
\* (to the sleep after the last source), what the pass wrote for source i
\* before the exception is in the target and nothing that was there is lost,
\* and the cycle reaches its sleep with every source of the policy processed.
C12_SourceFailureIsolated ==
    [][ (pc = "export" /\ PassRaised) =>
            /\ IF src < Len(config.sources)
               THEN pc' = "export" /\ src' = src + 1
               ELSE pc' = "sleep"
            /\ \A e \in OkWrites(NewEntries) : Written(e, basyx')
            /\ basyx.shells \subseteq basyx'.shells
            /\ basyx.submodels \subseteq basyx'.submodels
            /\ \A e \in basyx.elements : ElementExists(basyx', e[1], e[2], e[3])
            /\ pc' = "sleep" =>
                  \A i \in 1..Len(config.sources) : ExportEntries(log', i) # {}
      ]_vars

\* Source 1 raised after it had written, the write is in the target, and
\* source 2 was processed in the same cycle.
C12_Witness ==
    /\ pc = "sleep"
    /\ \E e \in ExportEntries(log, 1) : ~e.ok /\ e.op \in {"GET", "POST", "PATCH"}
    /\ \E e \in OkWrites(ExportEntries(log, 1)) : Written(e, basyx)
    /\ \E e \in OkWrites(ExportEntries(log, 2)) : Written(e, basyx)

\* The fetch of the things or of the features of source i met an error in
\* the step under way.
FetchFailed(i) ==
    \E e \in NewEntries :
        ~e.ok /\ e.op = "GET" /\ e.kind \in {"things", "features"} /\ e.src = i

\* C13: per-source isolation in the Cleanup Pass. When the fetch of the
\* things or features of one source fails, the pass still removes, for every
\* other configured source, the Submodel of each live feature the policy
\* does not configure and the Shell of each thing left with no configured
\* feature (thing ids unique across sources).
C13_CleanupSourceIsolated ==
    [][(pc = "cleanup" /\ config.basyx_url /\ UniqueIds) =>
        \A i \in 1..Len(config.sources) : \A j \in 1..Len(config.sources) :
            (i # j /\ FetchFailed(i)) =>
                \A thing \in LiveThings(config.sources[j].source_url) :
                    LET T == thing.thingId
                        url == config.sources[j].source_url
                        kept == {f \in LiveFeatures(thing) :
                                    Specified(url, T, f.feature_id).kind = "selector"}
                    IN  /\ \A f \in LiveFeatures(thing) \ kept :
                              <<T, f.feature_id>> \notin basyx'.submodels
                        /\ kept = {} => T \notin basyx'.shells]_vars

(***************************************************************************)
(* Deletes (Spec)                                                          *)
(***************************************************************************)
\* The target after one more Cleanup Pass run on the target b.
CleanedAgain(b) ==
    cleanup_basyx_resources(StartPass("cleanup", b, <<>>), config, ditto, now).basyx

\* C14: idempotent delete. Every delete call of a Cleanup Pass, no call
\* being lost, reports success, whether the object was there (200) or not
\* (404), and a second Cleanup Pass run right after the first leaves the
\* target as the first left it.
C14_DeleteIdempotent ==
    [][pc = "cleanup" =>
          /\ \A e \in NewEntries : e.op = "DELETE" => e.ok
          /\ CleanedAgain(basyx') = basyx']_vars

(***************************************************************************)
(* The scheduler loop (Spec)                                               *)
(***************************************************************************)
\* The order in which one cycle goes through its stages.
CycleOrder ==
    { <<"load", "cleanup">>, <<"cleanup", "export">>, <<"cleanup", "sleep">>,
      <<"export", "export">>, <<"export", "sleep">>, <<"sleep", "load">> }

\* C15: scheduler ordering. Within a cycle the policy is loaded first (the
\* policy changes at the load only, and the cycle's calls start after it),
\* every call of the Cleanup Pass comes before the first call of the
\* reconciliation pass, the sources are reconciled one after the other in
\* policy order, and a new cycle starts only from the sleep of the one
\* before.
C15_SchedulerOrdering ==
    [][ /\ <<pc, src>> # <<pc', src'>> => <<pc, pc'>> \in CycleOrder
        /\ (config' # config \/ cycle' # cycle) =>
                pc = "load" /\ pc' = "cleanup" /\ cycle' = cycle + 1 /\ log' = <<>>
        /\ pc' = "load" => pc \in {"sleep", "load"}
        /\ \A e \in NewEntries :
              /\ e.pass = pc /\ pc \in {"cleanup", "export"}
              /\ e.pass = "cleanup" => \A x \in LogSet(log) : x.pass # "export"
              /\ e.pass = "export" =>
                    /\ e.src = src
                    /\ \A x \in LogSet(log) : x.pass = "export" => x.src < src
        /\ (pc = "export" /\ pc' = "export") => src' = src + 1
        /\ (pc = "cleanup" /\ pc' = "export") => src' = 1
      ]_vars

\* A second cycle, begun after the sleep of the first, that has run its
\* Cleanup Pass and reconciled its sources.
C15_Witness ==
    /\ cycle = 2 /\ pc = "sleep"
    /\ \E e \in LogSet(log) : e.pass = "cleanup"
    /\ \E e \in LogSet(log) : e.pass = "export" /\ e.src = 2

\* C16: when the policy file is absent or unreadable, the cycle run on the
\* document load_config returns issues no registry call and creates,
\* updates and deletes nothing, whatever the target holds, and goes from the
\* Cleanup Pass to its sleep and from there to the next load.
C16_EmptyPolicyExportsNothing ==
    [][ config = EmptyPolicy =>
          /\ pc \in {"cleanup", "export"} =>
                NewEntries = {} /\ basyx' = basyx /\ pc' = "sleep"
          /\ pc = "sleep" => pc' = "load" ]_vars

\* A cycle run without policy file on a target filled by the cycle before.
C16_Witness ==
    /\ config = EmptyPolicy /\ cycle = 2 /\ pc = "sleep"
    /\ basyx.shells # {} /\ basyx.elements # {}

(***************************************************************************)
(* The gate switched off (Spec)                                            *)
(***************************************************************************)
\* C17: with security.verify_signatures false or absent the gate is
\* bypassed. A reconciliation step that gets through its source records no
\* verification, and for every live feature the policy configures it writes
\* (creates or updates) each selected property, the bundle carrying a valid
\* signature or not.
C17_GateBypassed ==
    [][ (pc = "export" /\ ~config.verify_signatures /\ ~PassRaised) =>
          /\ \A e \in NewEntries : e.op # "verify"
          /\ \A thing \in LiveThings(config.sources[src].source_url) :
                \A f \in LiveFeatures(thing) :
                  LET r == get_export_config(config.sources[src].source_url, thing.thingId,
                                             f.feature_id, config, now)
                  IN  r.kind = "selector" =>
                        \A p \in DictKeys(filter_properties(f.properties, r.props)) :
                          \E e \in ElementWrites(NewEntries, thing.thingId, f.feature_id) :
                              e.prop = p /\ e.ok ]_vars

\* With the gate off, the Elements of a feature whose bundle would fail the
\* gate have been written in this cycle.
C17_Witness ==
    /\ pc = "sleep" /\ ~config.verify_signatures /\ config.basyx_url
    /\ \E url \in ConfiguredUrls : \E thing \in LiveThings(url) :
          \E f \in LiveFeatures(thing) :
            /\ FailsGate(f)
            /\ \E e \in ElementWrites(LogSet(log), thing.thingId, f.feature_id) : e.ok

(***************************************************************************)
(* The Shell created by another writer (SpecRace)                          *)
(***************************************************************************)
\* The other writer's creation of the Shell of the thing landed in the step
\* under way.
Raced(thing_id) ==
    \E e \in NewEntries : e.pass = "attack" /\ e.kind = "shell" /\ e.thing = thing_id

\* C18: the Shell create race is tolerated. When another writer creates the
\* Shell of a thing between the exporter's read of it and its own create,
\* the pass does not raise, and it goes on, in the same step, to ensure the
\* Submodel and write the selected properties of every configured live
\* feature of that thing (gate off).
C18_CreateRaceTolerated ==
    [][ (pc = "export" /\ ~config.verify_signatures) =>
          \A thing \in LiveThings(config.sources[src].source_url) :
            Raced(thing.thingId) =>
              /\ ~PassRaised
              /\ \A f \in LiveFeatures(thing) :
                    LET r == get_export_config(config.sources[src].source_url,
                                               thing.thingId, f.feature_id, config, now)
                    IN  r.kind = "selector" =>
                          /\ <<thing.thingId, f.feature_id>> \in basyx'.submodels
                          /\ \A p \in DictKeys(filter_properties(f.properties, r.props)) :
                                ElementExists(basyx', thing.thingId, f.feature_id, p) ]_vars

(***************************************************************************)
(* Staleness after a policy change (Spec)                                  *)
(***************************************************************************)
\* What the policy in force justifies in the target: the Submodel of a live
\* feature that resolves to a selector, the Shell of a thing with such a
\* feature, the Element of a property the selector keeps.
JustifiedElement(T, F, p) ==
    \E url \in ConfiguredUrls : \E thing \in LiveThings(url) : \E f \in LiveFeatures(thing) :
        /\ thing.thingId = T /\ f.feature_id = F
        /\ Specified(url, T, F).kind = "selector"
        /\ p \in DictKeys(filter_properties(f.properties, Specified(url, T, F).props))
JustifiedSubmodel(T, F) ==
    \E url \in ConfiguredUrls : \E thing \in LiveThings(url) : \E f \in LiveFeatures(thing) :
        /\ thing.thingId = T /\ f.feature_id = F
        /\ Specified(url, T, F).kind = "selector"
JustifiedShell(T) == \E F \in FeatureIds : JustifiedSubmodel(T, F)
\* Every thing rule of the policy carries a well-formed downtime block.
EveryRuleHasWindow ==
    \A i \in 1..Len(config.sources) : \A j \in 1..Len(config.sources[i].things) :
        config.sources[i].things[j].downtime.kind = "window"

\* C19: bounded staleness. In the first cycle that loads a changed policy
\* (a registry url configured, a downtime block on every thing rule, the
\* sources reporting what they reported the cycle before), the Cleanup Pass
\* leaves in the target no Shell, Submodel or Element that the new policy
\* does not justify.
C19_StaleDeletedInFirstCycle ==
    [][ ( /\ pc = "cleanup" /\ cycle >= 2 /\ ~prev.cfg_same
          /\ config.basyx_url /\ EveryRuleHasWindow
          /\ prev.before = prev.start ) =>
            /\ \A T \in basyx'.shells : JustifiedShell(T)
            /\ \A sm \in basyx'.submodels : JustifiedSubmodel(sm[1], sm[2])
            /\ \A e \in basyx'.elements : JustifiedElement(e[1], e[2], e[3]) ]_vars

(***************************************************************************)
(* Element selection in the Cleanup Pass (Spec)                            *)
(***************************************************************************)
\* The enumeration of the Cleanup step under way raised.
EnumerationRaised == \E e \in NewEntries : ~e.ok /\ e.op \in {"GET", "resolve"}
\* The property names for which the step under way issued DeleteElement on
\* behalf of source i.
ElementDeletes(i, thing_id, feature_id) ==
    {e.prop : e \in {x \in NewEntries : /\ x.op = "DELETE" /\ x.kind = "element"
                                        /\ x.src = i /\ x.thing = thing_id
                                        /\ x.feature = feature_id}}

\* C21: Cleanup element selection. In a Cleanup Pass whose enumeration does
\* not raise, for every live feature that resolves to a selector the pass
\* issues DeleteElement for exactly the live property names the selector
\* leaves out when the selector has no "*", and for none when it has one;
\* so no name that is not a property of the source feature is deleted.
C21_ElementSelection ==
    [][ (pc = "cleanup" /\ config.basyx_url /\ ~EnumerationRaised) =>
          \A i \in 1..Len(config.sources) :
            \A thing \in LiveThings(config.sources[i].source_url) :
              \A f \in LiveFeatures(thing) :
                LET r == get_export_config(config.sources[i].source_url, thing.thingId,
                                           f.feature_id, config, now)
                IN  r.kind = "selector" =>
                      ElementDeletes(i, thing.thingId, f.feature_id) =
                          IF "*" \in r.props THEN {}
                          ELSE DictKeys(f.properties) \ r.props ]_vars

\* A Cleanup Pass has removed the Element of a property the selector left
\* out and kept the Element of the selected one.
C21_Witness ==
    /\ pc = "export"
    /\ \E e \in LogSet(log) : /\ e.op = "DELETE" /\ e.kind = "element" /\ e.ok
                               /\ e.thing = "t1" /\ e.feature = "f1" /\ e.prop = "b"
    /\ ElementExists(basyx, "t1", "f1", "a")
    /\ ~ElementExists(basyx, "t1", "f1", "b")

(***************************************************************************)
(* Unconfigured features in the reconciliation pass (Spec)                 *)
(***************************************************************************)
\* The feature of the thing resolves to Unconfigured under the policy and
\* the clock of the cycle.
Unconfigured(url, thing, f) ==
    get_export_config(url, thing.thingId, f.feature_id, config, now).kind = "none"

\* C22: a feature that resolves to Unconfigured has no side effects in the
\* reconciliation pass. The step of its source issues no call that names
\* the feature, leaves its Submodel and its Elements as they were, and when
\* every live feature of the thing is Unconfigured it issues no call for
\* the thing's Shell either and leaves the Shell as it was.
C22_UnconfiguredNoEffect ==
    [][ pc = "export" =>
          \A thing \in LiveThings(config.sources[src].source_url) :
            LET url == config.sources[src].source_url
                T == thing.thingId
            IN  /\ \A f \in LiveFeatures(thing) :
                      Unconfigured(url, thing, f) =>
                        /\ \A e \in NewEntries : ~(e.thing = T /\ e.feature = f.feature_id)
                        /\ <<T, f.feature_id>> \in basyx.submodels
                              <=> <<T, f.feature_id>> \in basyx'.submodels
                        /\ ElementsOf(basyx, T, f.feature_id) = ElementsOf(basyx', T, f.feature_id)
                /\ (\A f \in LiveFeatures(thing) : Unconfigured(url, thing, f)) =>
                        /\ \A e \in NewEntries : ~(e.thing = T /\ e.kind = "shell")
                        /\ T \in basyx.shells <=> T \in basyx'.shells ]_vars

\* The pass has written a configured feature of t1 and passed by its
\* Unconfigured feature f2, which has no Submodel.
C22_Witness ==
    /\ pc = "sleep" /\ config.basyx_url /\ Len(config.sources) > 0
    /\ config.sources[1].source_url = "u1"
    /\ \E thing \in LiveThings("u1") : \E f \in LiveFeatures(thing) :
          /\ f.feature_id = "f2" /\ Unconfigured("u1", thing, f)
          /\ <<thing.thingId, "f2">> \notin basyx.submodels
          /\ \E e \in OkWrites(ExportEntries(log, 1)) :
                e.thing = thing.thingId /\ e.feature = "f1" /\ e.kind = "element"

(***************************************************************************)
(* The value of an Element (Spec)                                          *)
(***************************************************************************)
\* C23: the value written to an Element is str(v) of the source value v, on
\* the create branch and on the update branch alike: after a reconciliation
\* step, every Element the step wrote holds str(v) of the live property.
C23_ValueIsStr ==
    [][ pc = "export" =>
          \A thing \in LiveThings(config.sources[src].source_url) :
            \A f \in LiveFeatures(thing) :
              \A n \in 1..Len(f.properties) :
                (\E e \in ElementWrites(NewEntries, thing.thingId, f.feature_id) :
                      e.prop = f.properties[n][1] /\ e.ok)
                  => <<thing.thingId, f.feature_id, f.properties[n][1],
                       py_str(f.properties[n][2])>> \in basyx'.elements ]_vars

(***************************************************************************)
(* Completion of a cycle (SpecLoop)                                        *)
(***************************************************************************)
\* C24: every scheduler cycle runs to completion. Whichever of its passes
\* raise (the Cleanup Pass, the reconciliation of any source), the cycle
\* under way reaches its sleep, the loop comes back to the load, and the
\* next cycle starts.
C24_CycleCompletes ==
    /\ (pc \in {"cleanup", "export"}) ~> (pc = "sleep")
    /\ (pc = "sleep") ~> (pc = "load")
    /\ (pc = "load" /\ cycle < MaxCycles) ~> (pc = "cleanup")

\* A second cycle under way after a cycle in which passes raised: its own
\* Cleanup Pass and its first source raised, and it stands at its sleep.
C24_Witness ==
    /\ cycle = 2 /\ pc = "sleep"
    /\ \E e \in LogSet(log) : e.op = "raise" /\ e.pass = "cleanup"
    /\ \E e \in LogSet(log) : e.op = "raise" /\ e.pass = "export" /\ e.src = 1

(***************************************************************************)
(* Failed deletes (SpecFaults)                                             *)
(***************************************************************************)
\* The deletions a set of log entries attempts, whatever their outcome.
Attempted(entries) ==
    {<<e.kind, e.thing, e.feature, e.prop>> : e \in {x \in entries : x.op = "DELETE"}}
\* The deletions the Cleanup Pass queues in the present state: those of the
\* pass run with no call lost.
Queued ==
    Attempted(LogSet(cleanup_basyx_resources(StartPass("cleanup", basyx, <<>>),
                                             config, ditto, now).log))
\* The object a delete call names is in the target b.
Present(e, b) ==
    CASE e.kind = "shell" -> e.thing \in b.shells
      [] e.kind = "submodel" -> <<e.thing, e.feature>> \in b.submodels
      [] OTHER -> ElementExists(b, e.thing, e.feature, e.prop)

\* C25: delete failures do not block the Cleanup Pass. In a Cleanup Pass
\* whose enumeration gets through, every queued deletion is attempted even
\* when a delete call fails (lost, or answered not found), a delete reported
\* successful has removed its object, a lost one has left it, and the
\* reconciliation of the first source follows in the same cycle.
C25_DeleteFailuresDoNotBlock ==
    [][ (pc = "cleanup" /\ config.basyx_url /\ ~EnumerationRaised) =>
          /\ Attempted(NewEntries) = Queued
          /\ \A e \in NewEntries : (e.op = "DELETE" /\ e.ok) => ~Present(e, basyx')
          /\ \A e \in NewEntries :
                (e.op = "DELETE" /\ ~e.ok /\ e.kind = "shell" /\ Present(e, basyx))
                    => Present(e, basyx')
          /\ Len(config.sources) > 0 => pc' = "export" /\ src' = 1 ]_vars

\* The delete of a Shell that is in the target failed, and the delete of
\* its Submodel, queued after it, was carried out.
C25_Witness ==
    /\ pc = "export"
    /\ \E e \in LogSet(log) :
          /\ e.op = "DELETE" /\ e.kind = "shell" /\ ~e.ok /\ e.thing \in basyx.shells
          /\ \E x \in LogSet(log) :
                x.op = "DELETE" /\ x.kind = "submodel" /\ x.ok /\ x.thing = e.thing

(***************************************************************************)
(* Submodel references (SpecFaults)                                        *)
(***************************************************************************)
\* The Shell of the thing exists in b and carries a reference to the
\* Submodel of the feature.
Linked(b, T, F) ==
    T \in b.shells /\ \E n \in 1..Len(b.refs) : b.refs[n] = <<T, F>>
\* The target after one more reconciliation of source i, no call lost, run
\* on the target b.
ReconciledAgain(b, i) ==
    export_source(StartPass("export", b, <<>>), config, i, ditto, now, public_key).basyx

\* C26: every Submodel the engine has created is linked to its thing's
\* Shell. After the reconciliation of a source, whatever call it lost, and
\* one further reconciliation of the same source that loses none, the
\* Submodel of every live feature of the source that resolves to a selector
\* is, when it exists, referenced by the existing Shell of its thing (thing
\* ids unique across sources).
C26_SubmodelLinked ==
    [][ (pc = "export" /\ UniqueIds) =>
          LET url == config.sources[src].source_url
              again == ReconciledAgain(basyx', src)
          IN  \A thing \in LiveThings(url) : \A f \in LiveFeatures(thing) :
                ( /\ get_export_config(url, thing.thingId, f.feature_id, config, now).kind
                        = "selector"
                  /\ <<thing.thingId, f.feature_id>> \in again.submodels )
                    => Linked(again, thing.thingId, f.feature_id) ]_vars

(***************************************************************************)
(* SpecOrphan: the scheduler loop with a source whose content shrinks.     *)
(* The passes read the things and features of each source afresh           *)
(* (exporter.py:124-131, 251-253); between two cycles u1 may stop          *)
(* reporting a feature of its thing, or the thing.                         *)
(***************************************************************************)
RemoveAt(s, n) == [k \in 1..(Len(s) - 1) |-> IF k < n THEN s[k] ELSE s[k + 1]]

\* u1 stops reporting one feature of its thing.
RemoveFeature ==
    /\ pc = "load"
    /\ Len(ditto["u1"]) > 0
    /\ \E n \in 1..Len(ditto["u1"][1].features) :
         ditto' = [ditto EXCEPT !["u1"][1].features = RemoveAt(@, n)]
    /\ UNCHANGED <<pc, src, cycle, config, now, basyx, log, prev,
                   public_key, resolverVars, sigVars>>

\* u1 stops reporting its thing.
RemoveThing ==
    /\ pc = "load"
    /\ Len(ditto["u1"]) > 0
    /\ ditto' = [ditto EXCEPT !["u1"] = <<>>]
    /\ UNCHANGED <<pc, src, cycle, config, now, basyx, log, prev,
                   public_key, resolverVars, sigVars>>

NextOrphan == LoadConfig \/ Cleanup \/ ExportSource \/ Sleep \/ Tick \/ RemoveFeature \/ RemoveThing
SpecOrphan == Init /\ [][NextOrphan]_vars

\* Some source reports thing T with feature F.
Reported(T, F) ==
    \E u \in SourceUrls : \E thing \in LiveThings(u) :
        thing.thingId = T /\ \E f \in LiveFeatures(thing) : f.feature_id = F
\* The Submodels of the target whose feature no source reports any more.
Orphans(b) == {sm \in b.submodels : ~Reported(sm[1], sm[2])}

\* C27: orphan gap. A Cleanup Pass, under any policy and at any time, leaves
\* in the target every Submodel whose feature (or whose thing) no source
\* reports any more, together with all its Elements.
C27_OrphansNeverDeleted ==
    [][ pc = "cleanup" =>
          \A sm \in Orphans(basyx) :
              /\ sm \in basyx'.submodels
              /\ ElementsOf(basyx, sm[1], sm[2]) \subseteq basyx'.elements ]_vars
\* The Cleanup Pass of the second cycle has deleted objects, and a Submodel
\* with an Element whose feature has left the source is still in the target.
C27_Witness ==
    /\ pc = "export" /\ cycle = 2
    /\ \E e \in LogSet(log) : e.pass = "cleanup" /\ e.op = "DELETE" /\ e.ok
    /\ \E sm \in Orphans(basyx) : ElementsOf(basyx, sm[1], sm[2]) # {}

\* The calls of the cycle that changed the target: creations, updates and
\* deletions the registry carried out.
Changes(l) ==
    {e \in LogSet(l) : /\ e.op \in {"POST", "PATCH", "DELETE"} /\ e.ok
                       /\ e.kind \in {"shell", "submodel", "element"}}
SameObject(e, g) ==
    e.kind = g.kind /\ e.thing = g.thing /\ e.feature = g.feature /\ e.prop = g.prop

\* C28: sources share no target state. Within a cycle no Shell, Submodel or
\* Element that was created or updated on behalf of one configured source is
\* created, updated or deleted on behalf of another one, also when two
\* sources report the same thing id.
C28_SourcesShareNothing ==
    \A e \in Changes(log), g \in Changes(log) :
        (e.op \in {"POST", "PATCH"} /\ SameObject(e, g)) => e.src = g.src

(***************************************************************************)
(* SpecConverge: the scheduler loop started on a target registry that      *)
(* already holds objects, at any time of the clock, with thing ids unique  *)
(* across the sources and no call lost.                                    *)
(***************************************************************************)
\* Elements the target may hold at the start: a selected property with an
\* old value, a property the selector of OnlyF1 leaves out, and a property
\* of the thing of u2.
StartElements ==
    { <<"t1", "f1", "a", "0">>, <<"t1", "f1", "b", "True">>, <<"t2", "f1", "a", "2">> }
\* The registry keeps Elements inside their Submodel; a Shell may carry
\* references or none.
StartTargets ==
    { [shells |-> sh, refs |-> rf, submodels |-> sm, elements |-> el] :
        sh \in SUBSET {"t1", "t2"},
        rf \in {<<>>, << <<"t1", "f1">> >>},
        sm \in SUBSET {<<"t1", "f1">>, <<"t1", "f2">>, <<"t2", "f1">>},
        el \in SUBSET StartElements }

InitConverge ==
    /\ IdleResolver /\ IdleSig
    /\ public_key = "k1"
    /\ pc = "load" /\ src = 0 /\ cycle = 0
    /\ config = EmptyPolicy
    /\ now \in Times
    /\ ditto = World(signed_bundle(PropsAB, "k1", "s1"), "t2")
    /\ basyx \in {b \in StartTargets :
                     /\ \A e \in b.elements : <<e[1], e[2]>> \in b.submodels
                     /\ \A n \in 1..Len(b.refs) : b.refs[n][1] \in b.shells}
    /\ log = <<>>
    /\ prev = [NoPrev EXCEPT !.start = ditto, !.before = ditto]

NextConverge == LoadConfig \/ Cleanup \/ ExportSource \/ Sleep
SpecConverge == InitConverge /\ [][NextConverge]_vars

\* The gate is off, or every live feature of the configured sources that
\* the policy exports carries a valid signature.
GateLetsThrough ==
    \/ ~config.verify_signatures
    \/ \A url \in ConfiguredUrls : \A thing \in LiveThings(url) : \A f \in LiveFeatures(thing) :
          Specified(url, thing.thingId, f.feature_id).kind = "selector" => ~FailsGate(f)
PropertyNames(f) == {f.properties[n][1] : n \in 1..Len(f.properties)}
\* The target mirrors thing `thing` of source url exactly as the policy
\* resolves it.
Converged(url, thing) ==
    LET T == thing.thingId
        res(f) == Specified(url, T, f.feature_id)
    IN  /\ T \in basyx.shells <=> \E f \in LiveFeatures(thing) : res(f).kind = "selector"
        /\ \A f \in LiveFeatures(thing) :
              /\ <<T, f.feature_id>> \in basyx.submodels <=> res(f).kind = "selector"
              /\ res(f).kind = "selector" =>
                    \A p \in PropertyNames(f) :
                        ElementExists(basyx, T, f.feature_id, p)
                            <=> (p \in res(f).props \/ "*" \in res(f).props)

RulesMatching(url, T) ==
    {ij \in (1..Len(config.sources)) \X (1..MaxThingRules) :
        /\ config.sources[ij[1]].source_url = url
        /\ ij[2] <= Len(config.sources[ij[1]].things)
        /\ Matches(config.sources[ij[1]].things[ij[2]].thing_id, T)}
\* now lies inside the downtime window of the first thing rule matching T.
InDowntime(url, T) ==
    /\ RulesMatching(url, T) # {}
    /\ LET first == CHOOSE ij \in RulesMatching(url, T) :
                        \A kl \in RulesMatching(url, T) :
                            ij[1] < kl[1] \/ (ij[1] = kl[1] /\ ij[2] <= kl[2])
       IN  WindowHolds(config.sources[first[1]].things[first[2]].downtime, now)
\* The step under way issued the deletion on behalf of source i.
Deletes(i, kind, T, F) ==
    \E e \in NewEntries : /\ e.op = "DELETE" /\ e.kind = kind /\ e.src = i
                           /\ e.thing = T /\ e.feature = F

\* C30: downtime deletes rather than freezes. For every thing of a
\* configured source (thing ids unique) that is inside the downtime window
\* of its first matching thing rule: every Cleanup Pass issues DeleteShell
\* for it and DeleteSubmodel for each of its live features, after which
\* neither its Shell nor any of these Submodels is in the target; and the
\* reconciliation of its source writes nothing for it.
C30_DowntimeDeletes ==
    [][ (pc \in {"cleanup", "export"} /\ config.basyx_url /\ UniqueIds) =>
          \A i \in 1..Len(config.sources) :
            \A thing \in LiveThings(config.sources[i].source_url) :
              InDowntime(config.sources[i].source_url, thing.thingId) =>
                LET T == thing.thingId
                IN  IF pc = "cleanup"
                    THEN /\ Deletes(i, "shell", T, "")
                         /\ T \notin basyx'.shells
                         /\ \A f \in LiveFeatures(thing) :
                               /\ Deletes(i, "submodel", T, f.feature_id)
                               /\ <<T, f.feature_id>> \notin basyx'.submodels
                    ELSE /\ \A e \in NewEntries :
                               e.thing = T => e.op \notin {"POST", "PATCH"}
                         /\ T \notin basyx'.shells ]_vars

\* The positions of the log the step under way appends.
NewPositions == (Len(log) + 1)..Len(log')
\* The Shell and Submodel deletions of the step under way, in call order.
ItemDeletes ==
    LET calls == SelectSeq(SubSeq(log', Len(log) + 1, Len(log')),
                           LAMBDA e : e.op = "DELETE" /\ e.kind \in {"shell", "submodel"})
    IN  [n \in 1..Len(calls) |-> <<calls[n].kind, calls[n].thing, calls[n].feature, calls[n].src>>]
\* The queue the enumeration of the present state builds (exporter.py:232,
\* 264-286), in queue order.
ItemQueue ==
    LET items == enumerate_sources(StartPass("cleanup", basyx, <<>>), config, 1, ditto, now).items
    IN  [n \in 1..Len(items) |-> <<items[n].kind, items[n].thing, items[n].feature, items[n].src>>]

\* C31: Cleanup is enumerate-then-delete. In every Cleanup Pass no
\* enumeration call follows a delete call, and a pass that deletes has
\* fetched the things of every configured source; a pass whose enumeration
\* raises issues no delete; otherwise the Shell and Submodel deletions are
\* issued in queue order, all of them before the first Element deletion.
C31_EnumerateThenDelete ==
    [][ (pc = "cleanup" /\ config.basyx_url) =>
          /\ \A n \in NewPositions, m \in NewPositions :
                (n < m /\ log'[n].op = "DELETE") =>
                    /\ log'[m].op = "DELETE"
                    /\ log'[n].kind = "element" => log'[m].kind = "element"
          /\ (\E e \in NewEntries : e.op = "DELETE") =>
                \A i \in 1..Len(config.sources) :
                    \E e \in NewEntries : e.op = "GET" /\ e.kind = "things" /\ e.src = i /\ e.ok
          /\ IF EnumerationRaised
             THEN \A e \in NewEntries : e.op # "DELETE"
             ELSE ItemDeletes = ItemQueue ]_vars
\* A Cleanup Pass has issued a Submodel deletion and then Element
\* deletions, after enumerating its source.
C31_Witness ==
    /\ pc = "export" /\ src = 1
    /\ \E n \in 1..Len(log), m \in 1..Len(log) :
          /\ n < m
          /\ log[n].op = "DELETE" /\ log[n].kind = "submodel"
          /\ log[m].op = "DELETE" /\ log[m].kind = "element"
    /\ \E e \in LogSet(log) : e.op = "GET" /\ e.kind = "things" /\ e.pass = "cleanup"

\* The calls of the Cleanup Pass of the cycle that delete, and the calls of
\* its reconciliation passes that create or update.
CleanupDeletes == {e \in LogSet(log) : e.pass = "cleanup" /\ e.op = "DELETE"}
ExportWrites == {e \in LogSet(log) : e.pass = "export" /\ e.op \in {"POST", "PATCH"}}
\* Call g writes the object call e deletes, or an Element of the Submodel
\* it deletes.
Rewrites(e, g) ==
    \/ SameObject(e, g)
    \/ /\ e.kind = "submodel" /\ g.kind = "element"
       /\ e.thing = g.thing /\ e.feature = g.feature

\* C32: no churn within a cycle. With thing ids unique across the
\* configured sources (policy, source content and clock are the same for
\* both passes of a cycle), no Shell, Submodel or Element the Cleanup Pass
\* of the cycle deletes is created or updated by a reconciliation pass of
\* the same cycle.
C32_NoChurn ==
    UniqueIds => \A e \in CleanupDeletes, g \in ExportWrites : ~Rewrites(e, g)
\* A cycle has ended whose Cleanup Pass removed objects of a thing and whose
\* reconciliation wrote other objects of the same thing.
C32_Witness ==
    /\ pc = "sleep" /\ UniqueIds
    /\ \E e \in CleanupDeletes, g \in ExportWrites :
          e.ok /\ g.ok /\ e.thing = g.thing /\ e.kind = "submodel" /\ g.kind = "element"
    /\ \E e \in CleanupDeletes, g \in ExportWrites :
          e.ok /\ g.ok /\ e.thing = g.thing /\ e.feature = g.feature /\ e.kind = "element"

\* C33: no dangling submodel references. After any sequence of passes,
\* every submodel reference recorded on a Shell names a Submodel
\* that exists in the target, and no Submodel is referenced twice (thing ids
\* unique across the configured sources).
C33_NoDanglingRefs ==
    UniqueIds =>
        /\ \A n \in 1..Len(basyx.refs) : basyx.refs[n] \in basyx.submodels
        /\ \A n \in 1..Len(basyx.refs), m \in 1..Len(basyx.refs) :
              basyx.refs[n] = basyx.refs[m] => n = m

\* The thing ids reported by sources the policy does not list (its entry
\* was removed, or the policy file is gone) and by no listed source.
UnlistedThingIds ==
    UNION {ThingIdsOf(u) : u \in SourceUrls \ ConfiguredUrls}
        \ UNION {ThingIdsOf(u) : u \in ConfiguredUrls}
\* What target b holds of thing T.
ObjectsOf(b, T) ==
    [shell |-> T \in b.shells,
     submodels |-> {sm \in b.submodels : sm[1] = T},
     elements |-> {e \in b.elements : e[1] = T}]

\* C34: Cleanup visits only the sources listed in the policy. No step of
\* a cycle deletes (or changes) the Shell, a Submodel or an Element of a
\* thing reported only by sources the loaded policy does not list.
C34_UnlistedSourcesUntouched ==
    [][ (pc = "cleanup" \/ pc = "export") =>
          \A T \in UnlistedThingIds : ObjectsOf(basyx', T) = ObjectsOf(basyx, T) ]_vars
\* The Cleanup Pass of the second cycle has deleted objects of the listed
\* source, and the Shell and the Submodel mirrored earlier from u2, whose
\* entry is no longer in the policy, are in the target.
C34_Witness ==
    /\ pc = "export" /\ cycle = 2
    /\ "u2" \notin ConfiguredUrls /\ "t2" \in UnlistedThingIds
    /\ \E e \in LogSet(log) : e.pass = "cleanup" /\ e.op = "DELETE" /\ e.ok
    /\ ObjectsOf(basyx, "t2").shell
    /\ ObjectsOf(basyx, "t2").submodels # {}
====
